---- MODULE Spec2Model ----
(***************************************************************************)
(* A model of the smart-rte editing core: the document tree (doc.rs), the  *)
(* snapshot history (history.rs), the editing operations (ops.rs) and the  *)
(* EditorCore methods (lib.rs).  Every operation is an operator from the   *)
(* (document, history) pair it receives to the pair it leaves, written     *)
(* from its code; the actions apply the operators to the editor's state.   *)
(*                                                                         *)
(* Conventions.  A Vec is a sequence; positions in the code are 0-based,   *)
(* and the operators below take the code's 0-based positions.  An          *)
(* Option<T> is <<>> (None) or <<v>> (Some(v)).  A String is the sequence  *)
(* of its bytes.                                                           *)
(***************************************************************************)
EXTENDS Integers, Sequences, FiniteSets, TLC

VARIABLES
    doc,        \* EditorCore.doc: the document
    history,    \* EditorCore.history: the undo and redo stacks
    last,       \* the last call made on the editor, and what it returned
    panicked,   \* TRUE once a call has panicked (an index out of bounds)
    limit,      \* the session's bound on the undo stack's length: never changes
    selection   \* the SelectionRange the caller keeps and maps across table edits

vars == <<doc, history, last, panicked, limit, selection>>

----------------------------------------------------------------------------
(* Bounds of the model *)

\* the largest row or column position, and the largest table position, passed
\* to an operation
MaxIdx == 2
\* the largest node position passed to a node operation
MaxNodeIdx == 1
\* the largest row or column count passed to insert_table
MaxDim == 2
\* the largest number of snapshots on the undo stack, in an editing session
MaxHist == 2
\* the same, in a session of table edits
MaxTableOps == 3

\* the width of usize, scaled down
UsizeBits == 8
\* the largest number of nodes of a document read by from_json
MaxNodes == 3

\* the largest byte offset passed to an inline-style operation
MaxOffset == 4
\* the largest row or column that an anchor names before an insert is mapped
MaxAnchor == 1

Idx == 0..MaxIdx
NodeIdx == 0..MaxNodeIdx
Dim == 1..MaxDim
\* usize::MAX
UsizeMax == 2 ^ UsizeBits - 1
\* node positions passed as usize: in and out of range, and the largest
NodePos == NodeIdx \cup {UsizeMax}
Offsets == 0..MaxOffset
\* rows and columns passed to the inline-style operations on a cell: the cells
\* of a table of one row and two columns, and a row out of range
StyleCellPos == {0, 1}
\* texts that get inline styles, as UTF-8 bytes: none, "abc", and "a" followed
\* by the two bytes of U+00E9
StyleTexts == {<<>>, <<"a", "b", "c">>, <<"a", "C3", "A9">>}
\* style_json arguments: text that is no JSON, and three JSON objects
StyleJsons ==
    {[kind |-> "invalid"],
     [kind |-> "object", fields |-> [bold |-> TRUE]],
     [kind |-> "object", fields |-> [color |-> "red", bold |-> FALSE]],
     [kind |-> "object", fields |-> [code |-> TRUE]]}
\* the table positions that anchors name
AnchorTables == {0, 1}
\* pixel sizes passed to the setters: below both minimums, and above them
Px == {5, 200}
\* texts passed to the text setters
Texts == {<<"a">>, <<"b">>}

----------------------------------------------------------------------------
(* Vec and Option *)

None == <<>>
Some(v) == <<v>>

Min(a, b) == IF a <= b THEN a ELSE b
Max(a, b) == IF a >= b THEN a ELSE b

\* Vec::insert(i, x), i <= len
InsertAt(s, i, x) == SubSeq(s, 1, i) \o <<x>> \o SubSeq(s, i + 1, Len(s))
\* Vec::remove(i), i < len
RemoveAt(s, i) == SubSeq(s, 1, i) \o SubSeq(s, i + 2, Len(s))
\* Vec::resize(n, x) of a vector no longer than n
ResizeTo(s, n, x) == s \o [i \in 1..(n - Len(s)) |-> x]
\* s[i] = x, i < len
SetAt(s, i, x) == [s EXCEPT ![i + 1] = x]

----------------------------------------------------------------------------
(* doc.rs *)

DefaultCellStyle == [background |-> None, border |-> None]

DefaultCell ==
    [text |-> <<>>, colspan |-> 1, rowspan |-> 1, style |-> DefaultCellStyle,
     placeholder |-> FALSE, spans |-> None]

DefaultDoc == [nodes |-> <<>>, threads |-> <<>>]

Paragraph(text) == [type |-> "Paragraph", text |-> text, spans |-> None]

Heading(level, text) == [type |-> "Heading", level |-> level, text |-> text, spans |-> None]

Image(src, alt) == [type |-> "Image", src |-> src, alt |-> alt]

FormulaInline(tex) == [type |-> "FormulaInline", tex |-> tex]

FormulaBlock(tex) == [type |-> "FormulaBlock", tex |-> tex]

DefaultInlineStyle ==
    [bold |-> FALSE, italic |-> FALSE, underline |-> FALSE, code |-> FALSE,
     link |-> None, color |-> None, highlight |-> None, font_size_px |-> None]

InlineSpan(text, style) == [text |-> text, style |-> style]

NewRow(cols) == [cells |-> [i \in 1..cols |-> DefaultCell], height_px |-> None]

NewTable(rows, cols) ==
    [type |-> "Table",
     rows |-> [r \in 1..rows |-> NewRow(cols)],
     freeze_header |-> FALSE,
     freeze_first_col |-> FALSE,
     column_widths |-> [c \in 1..cols |-> 120]]

IsTable(n) == n.type = "Table"

----------------------------------------------------------------------------
(* history.rs *)

DefaultHistory == [undo_stack |-> <<>>, redo_stack |-> <<>>]

\* a faulty record_before_change: the redo stack is kept
record_keeps_redo(h, current) ==
    [undo_stack |-> Append(h.undo_stack, current), redo_stack |-> h.redo_stack]

record_before_change(h, current) ==
    [undo_stack |-> Append(h.undo_stack, current), redo_stack |-> <<>>]

\* a faulty undo: the oldest snapshot is restored, not the newest
undo_restores_oldest(h, d) ==
    IF h.undo_stack # <<>>
    THEN [history |-> [undo_stack |-> SubSeq(h.undo_stack, 1, Len(h.undo_stack) - 1),
                       redo_stack |-> Append(h.redo_stack, d)],
          doc |-> h.undo_stack[1],
          ret |-> TRUE]
    ELSE [history |-> h, doc |-> d, ret |-> FALSE]

\* a faulty undo: on an empty undo stack the document is still pushed onto
\* the redo stack
undo_pushes_on_empty(h, d) ==
    IF h.undo_stack # <<>>
    THEN [history |-> [undo_stack |-> SubSeq(h.undo_stack, 1, Len(h.undo_stack) - 1),
                       redo_stack |-> Append(h.redo_stack, d)],
          doc |-> h.undo_stack[Len(h.undo_stack)],
          ret |-> TRUE]
    ELSE [history |-> [h EXCEPT !.redo_stack = Append(@, d)], doc |-> d, ret |-> FALSE]

undo(h, d) ==
    IF h.undo_stack # <<>>
    THEN [history |-> [undo_stack |-> SubSeq(h.undo_stack, 1, Len(h.undo_stack) - 1),
                       redo_stack |-> Append(h.redo_stack, d)],
          doc |-> h.undo_stack[Len(h.undo_stack)],
          ret |-> TRUE]
    ELSE [history |-> h, doc |-> d, ret |-> FALSE]

\* a faulty redo: the document redone, not the current one, is pushed onto
\* the undo stack
redo_pushes_next(h, d) ==
    IF h.redo_stack # <<>>
    THEN [history |-> [undo_stack |-> Append(h.undo_stack, h.redo_stack[Len(h.redo_stack)]),
                       redo_stack |-> SubSeq(h.redo_stack, 1, Len(h.redo_stack) - 1)],
          doc |-> h.redo_stack[Len(h.redo_stack)],
          ret |-> TRUE]
    ELSE [history |-> h, doc |-> d, ret |-> FALSE]

\* a faulty redo: the current document is not pushed onto the undo stack
redo_drops_current(h, d) ==
    IF h.redo_stack # <<>>
    THEN [history |-> [undo_stack |-> h.undo_stack,
                       redo_stack |-> SubSeq(h.redo_stack, 1, Len(h.redo_stack) - 1)],
          doc |-> h.redo_stack[Len(h.redo_stack)],
          ret |-> TRUE]
    ELSE [history |-> h, doc |-> d, ret |-> FALSE]

redo(h, d) ==
    IF h.redo_stack # <<>>
    THEN [history |-> [undo_stack |-> Append(h.undo_stack, d),
                       redo_stack |-> SubSeq(h.redo_stack, 1, Len(h.redo_stack) - 1)],
          doc |-> h.redo_stack[Len(h.redo_stack)],
          ret |-> TRUE]
    ELSE [history |-> h, doc |-> d, ret |-> FALSE]

----------------------------------------------------------------------------
(* ops.rs: what an operation leaves *)

\* the (document, history) pair an operation leaves
R(d, h) == [doc |-> d, history |-> h]

\* the 0-based position of the first table node; only used when has_table
first_table_indices(d) ==
    (CHOOSE i \in 1..Len(d.nodes) :
        IsTable(d.nodes[i]) /\ \A j \in 1..(i - 1) : ~IsTable(d.nodes[j])) - 1

has_table(d) == \E i \in 1..Len(d.nodes) : IsTable(d.nodes[i])

\* table_mut_at(doc, i).is_some()
is_table_at(d, i) == i < Len(d.nodes) /\ IsTable(d.nodes[i + 1])

\* the document with the table at 0-based position ti replaced by t
WithTable(d, ti, t) == [d EXCEPT !.nodes[ti + 1] = t]

FirstTable(d) == d.nodes[first_table_indices(d) + 1]

----------------------------------------------------------------------------
(* ops.rs: node operations *)

insert_table(d, rows, cols, h) ==
    R([d EXCEPT !.nodes = Append(@, NewTable(rows, cols))],
      record_before_change(h, d))

\* [doc, history, panic]: what an insert_*_at leaves, of node after the
\* position after_index.  after_index + 1 overflows for usize::MAX: a build
\* with overflow checks panics there, after the snapshot; a build without
\* them wraps to 0
InsertAfter(d, after_index, node, h, overflow_checks) ==
    LET h2 == record_before_change(h, d)
        at == Min((after_index + 1) % (UsizeMax + 1), Len(d.nodes))
    IN IF after_index = UsizeMax /\ overflow_checks
       THEN [doc |-> d, history |-> h2, panic |-> TRUE]
       ELSE [doc |-> [d EXCEPT !.nodes = InsertAt(@, at, node)],
             history |-> h2, panic |-> FALSE]

insert_table_at(d, after_index, rows, cols, h, overflow_checks) ==
    InsertAfter(d, after_index, NewTable(rows, cols), h, overflow_checks)

insert_formula_inline_at(d, after_index, tex, h, overflow_checks) ==
    InsertAfter(d, after_index, FormulaInline(tex), h, overflow_checks)

insert_formula_block_at(d, after_index, tex, h, overflow_checks) ==
    InsertAfter(d, after_index, FormulaBlock(tex), h, overflow_checks)

insert_image_at(d, after_index, src, alt, h, overflow_checks) ==
    InsertAfter(d, after_index, Image(src, alt), h, overflow_checks)

insert_paragraph(d, at, text, h) ==
    LET idx == Min(at, Len(d.nodes))
    IN R([d EXCEPT !.nodes = InsertAt(@, idx, Paragraph(text))],
         record_before_change(h, d))

\* a faulty set_paragraph_text: the text of a heading is replaced too
set_paragraph_text_or_heading(d, index, text, h) ==
    LET has_text == index < Len(d.nodes) /\ d.nodes[index + 1].type \in {"Paragraph", "Heading"}
    IN IF ~has_text THEN R(d, h)
       ELSE R([d EXCEPT !.nodes[index + 1].text = text],
              record_before_change(h, d))

set_paragraph_text(d, index, text, h) ==
    LET is_para == index < Len(d.nodes) /\ d.nodes[index + 1].type = "Paragraph"
    IN IF ~is_para THEN R(d, h)
       ELSE R([d EXCEPT !.nodes[index + 1].text = text],
              record_before_change(h, d))

\* a faulty delete_node: an out-of-range index is clamped to the last node
delete_node_clamps(d, at, h) ==
    IF d.nodes = <<>> THEN R(d, h)
    ELSE R([d EXCEPT !.nodes = RemoveAt(@, Min(at, Len(d.nodes) - 1))],
           record_before_change(h, d))

\* a faulty delete_node: the snapshot is taken before the index is checked
delete_node_records_first(d, at, h) ==
    IF at >= Len(d.nodes) THEN R(d, record_before_change(h, d))
    ELSE R([d EXCEPT !.nodes = RemoveAt(@, at)], record_before_change(h, d))

delete_node(d, at, h) ==
    IF at >= Len(d.nodes) THEN R(d, h)
    ELSE R([d EXCEPT !.nodes = RemoveAt(@, at)], record_before_change(h, d))

----------------------------------------------------------------------------
(* ops.rs: operations on the first table of the document *)

add_row(d, at, h) ==
    IF ~has_table(d) THEN R(d, h)
    ELSE LET ti == first_table_indices(d)
             t == d.nodes[ti + 1]
             cols == Max(Len(t.column_widths),
                         IF Len(t.rows) > 0 THEN Len(t.rows[1].cells) ELSE 0)
             idx == Min(at, Len(t.rows))
         IN R(WithTable(d, ti, [t EXCEPT !.rows = InsertAt(@, idx, NewRow(cols))]),
              record_before_change(h, d))

add_col(d, at, h) ==
    IF ~has_table(d) THEN R(d, h)
    ELSE LET ti == first_table_indices(d)
             t == d.nodes[ti + 1]
             idx == Min(at, Len(t.column_widths))
             rows2 == [r \in 1..Len(t.rows) |->
                         [t.rows[r] EXCEPT !.cells =
                             InsertAt(@, Min(idx, Len(@)), DefaultCell)]]
         IN R(WithTable(d, ti, [t EXCEPT !.rows = rows2,
                                         !.column_widths = InsertAt(@, idx, 120)]),
              record_before_change(h, d))

delete_row(d, at, h) ==
    IF ~has_table(d) THEN R(d, h)
    ELSE LET ti == first_table_indices(d)
             t == d.nodes[ti + 1]
         IN IF at >= Len(t.rows) THEN R(d, h)
            ELSE R(WithTable(d, ti, [t EXCEPT !.rows = RemoveAt(@, at)]),
                   record_before_change(h, d))

delete_col(d, at, h) ==
    IF ~has_table(d) THEN R(d, h)
    ELSE LET ti == first_table_indices(d)
             t == d.nodes[ti + 1]
             rows2 == [r \in 1..Len(t.rows) |->
                         [t.rows[r] EXCEPT !.cells =
                             IF at < Len(@) THEN RemoveAt(@, at) ELSE @]]
         IN IF at >= Len(t.column_widths) THEN R(d, h)
            ELSE R(WithTable(d, ti, [t EXCEPT !.rows = rows2,
                                              !.column_widths = RemoveAt(@, at)]),
                   record_before_change(h, d))

move_row(d, from, to, h) ==
    IF ~has_table(d) THEN R(d, h)
    ELSE LET ti == first_table_indices(d)
             t == d.nodes[ti + 1]
             len == Len(t.rows)
             from_i == Min(from, Max(len - 1, 0))
             to_i == Min(to, Max(len - 1, 0))
         IN IF from_i = to_i \/ from_i >= len THEN R(d, h)
            ELSE R(WithTable(d, ti,
                     [t EXCEPT !.rows = InsertAt(RemoveAt(@, from_i), to_i, @[from_i + 1])]),
                   record_before_change(h, d))

move_col(d, from, to, h) ==
    IF ~has_table(d) THEN R(d, h)
    ELSE LET ti == first_table_indices(d)
             t == d.nodes[ti + 1]
             len == Len(t.column_widths)
             from_i == Min(from, Max(len - 1, 0))
             to_i == Min(to, Max(len - 1, 0))
             rows2 == [r \in 1..Len(t.rows) |->
                         [t.rows[r] EXCEPT !.cells =
                             IF from_i < Len(@)
                             THEN InsertAt(RemoveAt(@, from_i),
                                           Min(to_i, Len(@) - 1), @[from_i + 1])
                             ELSE @]]
         IN IF from_i = to_i \/ from_i >= len THEN R(d, h)
            ELSE R(WithTable(d, ti,
                     [t EXCEPT !.rows = rows2,
                               !.column_widths =
                                   InsertAt(RemoveAt(@, from_i), to_i, @[from_i + 1])]),
                   record_before_change(h, d))

\* a faulty merge: the first corner given, not the top-left one, becomes the master
MergeTable_first_corner(t, sr, sc, er, ec) ==
    IF sr >= Len(t.rows) \/ er >= Len(t.rows) THEN t
    ELSE LET min_r == Min(sr, er)
             max_r == Max(sr, er)
             min_c == Min(sc, ec)
             max_c == Max(sc, ec)
             width == Len(t.rows[min_r + 1].cells)
         IN IF min_c >= width \/ max_c >= width THEN t
            ELSE [t EXCEPT !.rows =
                    [r \in 1..Len(t.rows) |->
                       [t.rows[r] EXCEPT !.cells =
                          [c \in 1..Len(t.rows[r].cells) |->
                             IF r - 1 = sr /\ c - 1 = sc
                             THEN [t.rows[r].cells[c] EXCEPT
                                     !.colspan = max_c - min_c + 1,
                                     !.rowspan = max_r - min_r + 1]
                             ELSE IF /\ min_r <= r - 1 /\ r - 1 <= max_r
                                     /\ min_c <= c - 1 /\ c - 1 <= max_c
                                  THEN [t.rows[r].cells[c] EXCEPT !.placeholder = TRUE]
                                  ELSE t.rows[r].cells[c]]]]]

\* a faulty merge: the master gets the width as rowspan and the height as colspan
MergeTable_swapped_spans(t, sr, sc, er, ec) ==
    IF sr >= Len(t.rows) \/ er >= Len(t.rows) THEN t
    ELSE LET min_r == Min(sr, er)
             max_r == Max(sr, er)
             min_c == Min(sc, ec)
             max_c == Max(sc, ec)
             width == Len(t.rows[min_r + 1].cells)
         IN IF min_c >= width \/ max_c >= width THEN t
            ELSE [t EXCEPT !.rows =
                    [r \in 1..Len(t.rows) |->
                       [t.rows[r] EXCEPT !.cells =
                          [c \in 1..Len(t.rows[r].cells) |->
                             IF r - 1 = min_r /\ c - 1 = min_c
                             THEN [t.rows[r].cells[c] EXCEPT
                                     !.colspan = max_r - min_r + 1,
                                     !.rowspan = max_c - min_c + 1]
                             ELSE IF /\ min_r <= r - 1 /\ r - 1 <= max_r
                                     /\ min_c <= c - 1 /\ c - 1 <= max_c
                                  THEN [t.rows[r].cells[c] EXCEPT !.placeholder = TRUE]
                                  ELSE t.rows[r].cells[c]]]]]

\* the table merge_cells and merge_cells_at leave (their bodies are the same)
MergeTable(t, sr, sc, er, ec) ==
    IF sr >= Len(t.rows) \/ er >= Len(t.rows) THEN t
    ELSE LET min_r == Min(sr, er)
             max_r == Max(sr, er)
             min_c == Min(sc, ec)
             max_c == Max(sc, ec)
             width == Len(t.rows[min_r + 1].cells)
         IN IF min_c >= width \/ max_c >= width THEN t
            ELSE [t EXCEPT !.rows =
                    [r \in 1..Len(t.rows) |->
                       [t.rows[r] EXCEPT !.cells =
                          [c \in 1..Len(t.rows[r].cells) |->
                             IF r - 1 = min_r /\ c - 1 = min_c
                             THEN [t.rows[r].cells[c] EXCEPT
                                     !.colspan = max_c - min_c + 1,
                                     !.rowspan = max_r - min_r + 1]
                             ELSE IF /\ min_r <= r - 1 /\ r - 1 <= max_r
                                     /\ min_c <= c - 1 /\ c - 1 <= max_c
                                  THEN [t.rows[r].cells[c] EXCEPT !.placeholder = TRUE]
                                  ELSE t.rows[r].cells[c]]]]]

merge_cells(d, sr, sc, er, ec, h) ==
    IF ~has_table(d) THEN R(d, h)
    ELSE LET ti == first_table_indices(d)
         IN R(WithTable(d, ti, MergeTable(d.nodes[ti + 1], sr, sc, er, ec)),
              record_before_change(h, d))

merge_cells_at(d, table_node_index, sr, sc, er, ec, h) ==
    IF ~is_table_at(d, table_node_index) THEN R(d, h)
    ELSE R(WithTable(d, table_node_index,
                     MergeTable(d.nodes[table_node_index + 1], sr, sc, er, ec)),
           record_before_change(h, d))

\* a faulty split: the cell at (r, c) becomes 1x1 and the placeholders it
\* covered are left as they are
SplitTable_keeps_placeholders(t, r, c) ==
    IF r >= Len(t.rows) THEN t
    ELSE IF c >= Len(t.rows[r + 1].cells) THEN t
    ELSE [t EXCEPT !.rows[r + 1].cells[c + 1] = [@ EXCEPT !.rowspan = 1, !.colspan = 1]]

\* the table split_cell and split_cell_at leave (their bodies are the same):
\* the cell at (r, c) becomes 1x1, and the placeholder flag is cleared on
\* every cell of the rectangle it spanned, the cell itself included
SplitTable(t, r, c) ==
    IF r >= Len(t.rows) THEN t
    ELSE IF c >= Len(t.rows[r + 1].cells) THEN t
    ELSE LET rowspan == Max(t.rows[r + 1].cells[c + 1].rowspan, 1)
             colspan == Max(t.rows[r + 1].cells[c + 1].colspan, 1)
         IN \* the column loop of a row breaks at the row's end
            [t EXCEPT !.rows =
               [rr \in 1..Len(t.rows) |->
                  [t.rows[rr] EXCEPT !.cells =
                     [cc \in 1..Len(t.rows[rr].cells) |->
                        LET cell == IF rr - 1 = r /\ cc - 1 = c
                                    THEN [t.rows[rr].cells[cc] EXCEPT
                                            !.rowspan = 1, !.colspan = 1]
                                    ELSE t.rows[rr].cells[cc]
                        IN IF /\ r <= rr - 1 /\ rr - 1 < r + rowspan
                              /\ c <= cc - 1 /\ cc - 1 < c + colspan
                           THEN [cell EXCEPT !.placeholder = FALSE]
                           ELSE cell]]]]

split_cell(d, r, c, h) ==
    IF ~has_table(d) THEN R(d, h)
    ELSE LET ti == first_table_indices(d)
         IN R(WithTable(d, ti, SplitTable(d.nodes[ti + 1], r, c)),
              record_before_change(h, d))

split_cell_at(d, table_node_index, r, c, h) ==
    IF ~is_table_at(d, table_node_index) THEN R(d, h)
    ELSE R(WithTable(d, table_node_index,
                     SplitTable(d.nodes[table_node_index + 1], r, c)),
           record_before_change(h, d))

set_row_height(d, r, px, h) ==
    LET h2 == record_before_change(h, d)
    IN IF ~has_table(d) THEN R(d, h2)
       ELSE LET ti == first_table_indices(d)
                t == d.nodes[ti + 1]
            IN IF r >= Len(t.rows) THEN R(d, h2)
               ELSE R(WithTable(d, ti,
                        [t EXCEPT !.rows[r + 1].height_px = Some(Max(px, 12))]), h2)

set_column_width(d, col, px, h) ==
    IF ~has_table(d) THEN R(d, h)
    ELSE LET ti == first_table_indices(d)
             t == d.nodes[ti + 1]
             widths == IF col >= Len(t.column_widths)
                       THEN ResizeTo(t.column_widths, col + 1, 120)
                       ELSE t.column_widths
         IN R(WithTable(d, ti,
                [t EXCEPT !.column_widths = SetAt(widths, col, Max(px, 20))]),
              record_before_change(h, d))

set_cell_text_at(d, table_node_index, r, c, text, h) ==
    LET h2 == record_before_change(h, d)
    IN IF ~is_table_at(d, table_node_index) THEN R(d, h2)
       ELSE LET t == d.nodes[table_node_index + 1]
            IN IF r < Len(t.rows) /\ c < Len(t.rows[r + 1].cells)
               THEN R([d EXCEPT !.nodes[table_node_index + 1]
                                 .rows[r + 1].cells[c + 1].text = text], h2)
               ELSE R(d, h2)

----------------------------------------------------------------------------
(* ops.rs: the cell style and freeze setters, and the indexed variants of   *)
(* the operations on the first table                                        *)

\* the CellStyle that set_cell_style reads from a JSON value: a border that
\* names no color or no width gets "#000" and 1
IncomingCellStyle(v) ==
    LET has(k) == v.kind = "object" /\ k \in DOMAIN v.fields
        b == v.fields.border
    IN [background |-> IF has("background") THEN Some(v.fields.background) ELSE None,
        border |-> IF has("border")
                   THEN Some([color |-> IF "color" \in DOMAIN b THEN b.color ELSE "#000",
                              width_px |-> IF "width_px" \in DOMAIN b
                                           THEN b.width_px ELSE 1])
                   ELSE None]

\* CellStyle::merge
CellStyle_merge(self, other) ==
    [background |-> IF other.background # None THEN other.background ELSE self.background,
     border |-> IF other.border # None THEN other.border ELSE self.border]

set_cell_style(d, r, c, style_json, h) ==
    IF ~has_table(d) THEN R(d, h)
    ELSE LET h2 == record_before_change(h, d)
             ti == first_table_indices(d)
             t == d.nodes[ti + 1]
         IN IF r >= Len(t.rows) THEN R(d, h2)
            ELSE IF c >= Len(t.rows[r + 1].cells) THEN R(d, h2)
            ELSE IF style_json.kind = "invalid" THEN R(d, h2)
            ELSE R([d EXCEPT !.nodes[ti + 1].rows[r + 1].cells[c + 1].style =
                       CellStyle_merge(@, IncomingCellStyle(style_json))], h2)

set_cell_style_at(d, table_node_index, r, c, style_json, h) ==
    LET h2 == record_before_change(h, d)
    IN IF ~is_table_at(d, table_node_index) THEN R(d, h2)
       ELSE LET t == d.nodes[table_node_index + 1]
            IN IF r >= Len(t.rows) THEN R(d, h2)
               ELSE IF c >= Len(t.rows[r + 1].cells) THEN R(d, h2)
               ELSE IF style_json.kind = "invalid" THEN R(d, h2)
               ELSE R([d EXCEPT !.nodes[table_node_index + 1].rows[r + 1].cells[c + 1].style =
                          CellStyle_merge(@, IncomingCellStyle(style_json))], h2)

set_freeze(d, header, first_col, h) ==
    IF ~has_table(d) THEN R(d, h)
    ELSE LET ti == first_table_indices(d)
         IN R([d EXCEPT !.nodes[ti + 1].freeze_header = header,
                        !.nodes[ti + 1].freeze_first_col = first_col],
              record_before_change(h, d))

set_freeze_at(d, table_node_index, header, first_col, h) ==
    LET h2 == record_before_change(h, d)
    IN IF ~is_table_at(d, table_node_index) THEN R(d, h2)
       ELSE R([d EXCEPT !.nodes[table_node_index + 1].freeze_header = header,
                        !.nodes[table_node_index + 1].freeze_first_col = first_col], h2)

set_column_width_at(d, table_node_index, col, px, h) ==
    LET h2 == record_before_change(h, d)
    IN IF ~is_table_at(d, table_node_index) THEN R(d, h2)
       ELSE LET t == d.nodes[table_node_index + 1]
                widths == IF col >= Len(t.column_widths)
                          THEN ResizeTo(t.column_widths, col + 1, 120)
                          ELSE t.column_widths
            IN R(WithTable(d, table_node_index,
                   [t EXCEPT !.column_widths = SetAt(widths, col, Max(px, 20))]), h2)

set_row_height_at(d, table_node_index, r, px, h) ==
    LET h2 == record_before_change(h, d)
    IN IF ~is_table_at(d, table_node_index) THEN R(d, h2)
       ELSE LET t == d.nodes[table_node_index + 1]
            IN IF r >= Len(t.rows) THEN R(d, h2)
               ELSE R(WithTable(d, table_node_index,
                        [t EXCEPT !.rows[r + 1].height_px = Some(Max(px, 12))]), h2)

add_row_at(d, table_node_index, at, h) ==
    IF ~is_table_at(d, table_node_index) THEN R(d, h)
    ELSE LET t == d.nodes[table_node_index + 1]
             cols == Max(Len(t.column_widths),
                         IF Len(t.rows) > 0 THEN Len(t.rows[1].cells) ELSE 0)
             idx == Min(at, Len(t.rows))
         IN R(WithTable(d, table_node_index,
                        [t EXCEPT !.rows = InsertAt(@, idx, NewRow(cols))]),
              record_before_change(h, d))

\* a faulty add_col_at: the column is added after the last
add_col_at_appends(d, table_node_index, at, h) ==
    IF ~is_table_at(d, table_node_index) THEN R(d, h)
    ELSE LET t == d.nodes[table_node_index + 1]
             idx == Len(t.column_widths)
             rows2 == [r \in 1..Len(t.rows) |->
                         [t.rows[r] EXCEPT !.cells =
                             InsertAt(@, Min(idx, Len(@)), DefaultCell)]]
         IN R(WithTable(d, table_node_index,
                        [t EXCEPT !.rows = rows2,
                                  !.column_widths = InsertAt(@, idx, 120)]),
              record_before_change(h, d))

add_col_at(d, table_node_index, at, h) ==
    IF ~is_table_at(d, table_node_index) THEN R(d, h)
    ELSE LET t == d.nodes[table_node_index + 1]
             idx == Min(at, Len(t.column_widths))
             rows2 == [r \in 1..Len(t.rows) |->
                         [t.rows[r] EXCEPT !.cells =
                             InsertAt(@, Min(idx, Len(@)), DefaultCell)]]
         IN R(WithTable(d, table_node_index,
                        [t EXCEPT !.rows = rows2,
                                  !.column_widths = InsertAt(@, idx, 120)]),
              record_before_change(h, d))

delete_row_at(d, table_node_index, at, h) ==
    IF ~is_table_at(d, table_node_index) THEN R(d, h)
    ELSE LET t == d.nodes[table_node_index + 1]
         IN IF at >= Len(t.rows) THEN R(d, h)
            ELSE R(WithTable(d, table_node_index, [t EXCEPT !.rows = RemoveAt(@, at)]),
                   record_before_change(h, d))

delete_col_at(d, table_node_index, at, h) ==
    IF ~is_table_at(d, table_node_index) THEN R(d, h)
    ELSE LET t == d.nodes[table_node_index + 1]
             rows2 == [r \in 1..Len(t.rows) |->
                         [t.rows[r] EXCEPT !.cells =
                             IF at < Len(@) THEN RemoveAt(@, at) ELSE @]]
         IN IF at >= Len(t.column_widths) THEN R(d, h)
            ELSE R(WithTable(d, table_node_index,
                             [t EXCEPT !.rows = rows2,
                                       !.column_widths = RemoveAt(@, at)]),
                   record_before_change(h, d))

----------------------------------------------------------------------------
(* ops.rs: inline styles.  Offsets are byte offsets into the UTF-8 text. *)

\* the byte b continues a character
IsContinuation(b) == b \in {"A9"}

\* str::is_char_boundary
is_char_boundary(text, i) ==
    i = 0 \/ i = Len(text) \/ (i < Len(text) /\ ~IsContinuation(text[i + 1]))

\* the style an inline-style operation reads from style_json: text that is no
\* JSON reads as Value::Null, of which every key is absent
ParseInlineStyle(json) ==
    LET has(k) == json.kind = "object" /\ k \in DOMAIN json.fields
        flag(k) == has(k) /\ json.fields[k] = TRUE
        str(k) == IF has(k) THEN Some(json.fields[k]) ELSE None
    IN [DefaultInlineStyle EXCEPT !.bold = flag("bold"),
                                  !.italic = flag("italic"),
                                  !.underline = flag("underline"),
                                  !.color = str("color"),
                                  !.highlight = str("highlight"),
                                  !.font_size_px = str("font_size_px")]

\* the overlay of style onto the style of a span
MergedStyle(base, style) ==
    [base EXCEPT !.bold = @ \/ style.bold,
                 !.italic = @ \/ style.italic,
                 !.underline = @ \/ style.underline,
                 !.color = IF style.color # None THEN style.color ELSE @,
                 !.highlight = IF style.highlight # None THEN style.highlight ELSE @,
                 !.font_size_px = IF style.font_size_px # None THEN style.font_size_px ELSE @]

\* [spans, panic]: the loop of the inline-style operations over the spans
\* that are left, the first of which starts at the byte pos; acc is what the
\* loop has pushed.  A slice of a span's text off a character boundary panics.
RECURSIVE RebuildSpans(_, _, _, _, _, _)
RebuildSpans(spans_vec, pos, s, e, style, acc) ==
    IF spans_vec = <<>> THEN [spans |-> acc, panic |-> FALSE]
    ELSE LET span == spans_vec[1]
             len == Len(span.text)
             span_start == pos
             span_end == pos + len
             local_s == Min(Max(s - span_start, 0), len)
             local_e == Min(Max(e - span_start, 0), len)
             head == IF local_s > 0
                     THEN <<InlineSpan(SubSeq(span.text, 1, local_s), span.style)>>
                     ELSE <<>>
             mid == IF local_s < local_e
                    THEN <<InlineSpan(SubSeq(span.text, local_s + 1, local_e),
                                      MergedStyle(span.style, style))>>
                    ELSE <<>>
             tail == IF local_e < len
                     THEN <<InlineSpan(SubSeq(span.text, local_e + 1, len), span.style)>>
                     ELSE <<>>
         IN IF e <= span_start \/ s >= span_end
            THEN RebuildSpans(Tail(spans_vec), pos + len, s, e, style, Append(acc, span))
            ELSE IF \/ local_s > 0 /\ ~is_char_boundary(span.text, local_s)
                    \/ local_s < local_e /\ ~is_char_boundary(span.text, local_e)
                    \/ local_e < len /\ ~is_char_boundary(span.text, local_e)
                 THEN [spans |-> acc, panic |-> TRUE]
                 ELSE RebuildSpans(Tail(spans_vec), pos + len, s, e, style,
                                   acc \o head \o mid \o tail)

\* a faulty store: a list of no spans is stored as it is, not as None
StyledSpans_stores_empty(text, spans, start, end, json) ==
    LET total_len == Len(text)
        s == Min(start, total_len)
        e == Max(Min(end, total_len), s)
        spans_vec == IF spans # None THEN spans[1]
                     ELSE IF text = <<>> THEN <<>>
                     ELSE <<InlineSpan(text, DefaultInlineStyle)>>
        r == RebuildSpans(spans_vec, 0, s, e, ParseInlineStyle(json), <<>>)
    IN [spans |-> Some(r.spans), panic |-> r.panic]

\* [spans, panic]: the Option<Vec<InlineSpan>> an inline-style operation
\* stores for the text and the spans it finds
StyledSpans(text, spans, start, end, json) ==
    LET total_len == Len(text)
        s == Min(start, total_len)
        e == Max(Min(end, total_len), s)
        spans_vec == IF spans # None THEN spans[1]
                     ELSE IF text = <<>> THEN <<>>
                     ELSE <<InlineSpan(text, DefaultInlineStyle)>>
        r == RebuildSpans(spans_vec, 0, s, e, ParseInlineStyle(json), <<>>)
    IN [spans |-> IF r.spans = <<>> THEN None ELSE Some(r.spans), panic |-> r.panic]

\* [doc, history, panic]
set_text_style(d, index, start, end, style_json, h) ==
    IF ~(index < Len(d.nodes) /\ d.nodes[index + 1].type = "Paragraph")
    THEN [doc |-> d, history |-> h, panic |-> FALSE]
    ELSE LET node == d.nodes[index + 1]
             r == StyledSpans(node.text, node.spans, start, end, style_json)
             h2 == record_before_change(h, d)
         IN IF r.panic THEN [doc |-> d, history |-> h2, panic |-> TRUE]
            ELSE [doc |-> [d EXCEPT !.nodes[index + 1].spans = r.spans],
                  history |-> h2, panic |-> FALSE]

\* [doc, history, panic]: the body set_cell_text_style and
\* set_cell_text_style_at share, on the table at the 0-based position ti
StyleCellOf(d, ti, r, c, start, end, style_json, h) ==
    LET t == d.nodes[ti + 1]
    IN IF r >= Len(t.rows) THEN [doc |-> d, history |-> h, panic |-> FALSE]
       ELSE IF c >= Len(t.rows[r + 1].cells) THEN [doc |-> d, history |-> h, panic |-> FALSE]
       ELSE LET cell == t.rows[r + 1].cells[c + 1]
                x == StyledSpans(cell.text, cell.spans, start, end, style_json)
                h2 == record_before_change(h, d)
            IN IF x.panic THEN [doc |-> d, history |-> h2, panic |-> TRUE]
               ELSE [doc |-> [d EXCEPT !.nodes[ti + 1].rows[r + 1].cells[c + 1].spans
                                          = x.spans],
                     history |-> h2, panic |-> FALSE]

set_cell_text_style(d, r, c, start, end, style_json, h) ==
    IF ~has_table(d) THEN [doc |-> d, history |-> h, panic |-> FALSE]
    ELSE StyleCellOf(d, first_table_indices(d), r, c, start, end, style_json, h)

set_cell_text_style_at(d, table_node_index, r, c, start, end, style_json, h) ==
    IF ~is_table_at(d, table_node_index) THEN [doc |-> d, history |-> h, panic |-> FALSE]
    ELSE StyleCellOf(d, table_node_index, r, c, start, end, style_json, h)

----------------------------------------------------------------------------
(* lib.rs: EditorCore::merge_cells, which also merges the cells' text *)

\* the cells of rows lo_r..hi_r and columns lo_c..hi_c in row-major order,
\* as 0-based <<row, column>> pairs
RECURSIVE RowMajor(_, _, _, _, _)
RowMajor(r, c, lo_c, hi_r, hi_c) ==
    IF r > hi_r THEN <<>>
    ELSE IF c > hi_c THEN RowMajor(r + 1, lo_c, lo_c, hi_r, hi_c)
    ELSE <<<<r, c>>>> \o RowMajor(r, c + 1, lo_c, hi_r, hi_c)

\* the first loop of EditorCore::merge_cells: the non-empty texts of the
\* cells at the positions ps, space-joined onto text
RECURSIVE JoinTexts(_, _, _)
JoinTexts(t, ps, text) ==
    IF ps = <<>> THEN text
    ELSE LET cell == t.rows[ps[1][1] + 1].cells[ps[1][2] + 1]
             text2 == IF cell.text # <<>>
                      THEN (IF text # <<>> THEN text \o <<" ">> ELSE text) \o cell.text
                      ELSE text
         IN JoinTexts(t, Tail(ps), text2)

\* [table, panic]: the table the body of EditorCore::merge_cells leaves, and
\* whether it indexed a row or a cell out of bounds (its first loop reads
\* every covered cell before any cell is written)
EditorCore_MergeTable(t, sr0, sc0, er0, ec0) ==
    LET start_r == Min(sr0, er0)
        start_c == Min(sc0, ec0)
        end_r == Max(er0, sr0)
        end_c == Max(ec0, sc0)
        others == SelectSeq(RowMajor(start_r, start_c, start_c, end_r, end_c),
                            LAMBDA p : p # <<start_r, start_c>>)
        oob == \E i \in 1..Len(others) :
                  \/ others[i][1] >= Len(t.rows)
                  \/ others[i][2] >= Len(t.rows[others[i][1] + 1].cells)
        text == JoinTexts(t, others, <<>>)
        master == t.rows[start_r + 1].cells[start_c + 1]
        master_text == IF text # <<>>
                       THEN (IF master.text # <<>> THEN master.text \o <<" ">>
                             ELSE master.text) \o text
                       ELSE master.text
    IN IF start_r >= Len(t.rows) THEN [table |-> t, panic |-> FALSE]
       ELSE IF start_c >= Len(t.rows[start_r + 1].cells)
            THEN [table |-> t, panic |-> FALSE]
       ELSE IF oob THEN [table |-> t, panic |-> TRUE]
       ELSE [table |->
               [t EXCEPT !.rows =
                  [r \in 1..Len(t.rows) |->
                     [t.rows[r] EXCEPT !.cells =
                        [c \in 1..Len(t.rows[r].cells) |->
                           IF r - 1 = start_r /\ c - 1 = start_c
                           THEN [master EXCEPT !.text = master_text,
                                               !.rowspan = end_r - start_r + 1,
                                               !.colspan = end_c - start_c + 1]
                           ELSE IF /\ start_r <= r - 1 /\ r - 1 <= end_r
                                   /\ start_c <= c - 1 /\ c - 1 <= end_c
                                THEN [t.rows[r].cells[c] EXCEPT
                                        !.placeholder = TRUE, !.text = <<>>]
                                ELSE t.rows[r].cells[c]]]]],
             panic |-> FALSE]

\* [doc, history, panic]
EditorCore_merge_cells(d, sr, sc, er, ec, h) ==
    LET h2 == record_before_change(h, d)
    IN IF ~has_table(d) THEN [doc |-> d, history |-> h2, panic |-> FALSE]
       ELSE LET ti == first_table_indices(d)
                m == EditorCore_MergeTable(d.nodes[ti + 1], sr, sc, er, ec)
            IN [doc |-> WithTable(d, ti, m.table), history |-> h2, panic |-> m.panic]

\* the table the body of EditorCore::split_cell leaves: the cell at (r, c)
\* becomes 1x1 and keeps its placeholder flag and text; every other cell of
\* the rectangle it spanned becomes 1x1, no placeholder, with no text
EditorCore_SplitTable(t, r, c) ==
    IF r >= Len(t.rows) THEN t
    ELSE IF c >= Len(t.rows[r + 1].cells) THEN t
    ELSE LET rowspan == Max(t.rows[r + 1].cells[c + 1].rowspan, 1)
             colspan == Max(t.rows[r + 1].cells[c + 1].colspan, 1)
         IN [t EXCEPT !.rows =
               [rr \in 1..Len(t.rows) |->
                  [t.rows[rr] EXCEPT !.cells =
                     [cc \in 1..Len(t.rows[rr].cells) |->
                        IF rr - 1 = r /\ cc - 1 = c
                        THEN [t.rows[rr].cells[cc] EXCEPT !.rowspan = 1, !.colspan = 1]
                        ELSE IF /\ r <= rr - 1 /\ rr - 1 < r + rowspan
                                /\ c <= cc - 1 /\ cc - 1 < c + colspan
                             THEN [t.rows[rr].cells[cc] EXCEPT
                                     !.placeholder = FALSE, !.text = <<>>,
                                     !.rowspan = 1, !.colspan = 1]
                             ELSE t.rows[rr].cells[cc]]]]]

EditorCore_split_cell(d, r, c, h) ==
    LET h2 == record_before_change(h, d)
    IN IF ~has_table(d) THEN R(d, h2)
       ELSE LET ti == first_table_indices(d)
            IN R(WithTable(d, ti, EditorCore_SplitTable(d.nodes[ti + 1], r, c)), h2)

----------------------------------------------------------------------------
(* selection.rs: anchors, and their mapping across table operations *)

Text(node_index, char_offset) ==
    [type |-> "Text", node_index |-> node_index, char_offset |-> char_offset]

TableCell(table_node_index, row, col, char_offset) ==
    [type |-> "TableCell", table_node_index |-> table_node_index,
     row |-> row, col |-> col, char_offset |-> char_offset]

SelectionRange(start, end) == [start |-> start, end |-> end]

\* the selection of an editor that was just constructed
CaretAtStart == SelectionRange(Text(0, 0), Text(0, 0))

\* [anchor, panic]: anchor with `*field += 1`, which overflows at usize::MAX:
\* a panic with overflow checks, a wrap to 0 without
Incremented(anchor, field, overflow_checks) ==
    IF anchor[field] = UsizeMax /\ overflow_checks
    THEN [anchor |-> anchor, panic |-> TRUE]
    ELSE [anchor |-> [anchor EXCEPT ![field] = (@ + 1) % (UsizeMax + 1)],
          panic |-> FALSE]

\* a faulty mapping: the anchors of the row at_row itself stay
map_anchor_row_insert_after(anchor, table_node_index, at_row, overflow_checks) ==
    IF /\ anchor.type = "TableCell"
       /\ anchor.table_node_index = table_node_index
       /\ anchor.row > at_row
    THEN Incremented(anchor, "row", overflow_checks)
    ELSE [anchor |-> anchor, panic |-> FALSE]

\* [anchor, panic]
map_anchor_row_insert(anchor, table_node_index, at_row, overflow_checks) ==
    IF /\ anchor.type = "TableCell"
       /\ anchor.table_node_index = table_node_index
       /\ anchor.row >= at_row
    THEN Incremented(anchor, "row", overflow_checks)
    ELSE [anchor |-> anchor, panic |-> FALSE]

\* a faulty mapping: the anchors of every table move
map_anchor_col_insert_any_table(anchor, table_node_index, at_col, overflow_checks) ==
    IF anchor.type = "TableCell" /\ anchor.col >= at_col
    THEN Incremented(anchor, "col", overflow_checks)
    ELSE [anchor |-> anchor, panic |-> FALSE]

\* [anchor, panic]
map_anchor_col_insert(anchor, table_node_index, at_col, overflow_checks) ==
    IF /\ anchor.type = "TableCell"
       /\ anchor.table_node_index = table_node_index
       /\ anchor.col >= at_col
    THEN Incremented(anchor, "col", overflow_checks)
    ELSE [anchor |-> anchor, panic |-> FALSE]

\* a faulty mapping: the rows from and to change places
map_anchor_row_move_swaps(anchor, table_node_index, from, to) ==
    IF anchor.type # "TableCell" \/ anchor.table_node_index # table_node_index
    THEN anchor
    ELSE IF anchor.row = from THEN [anchor EXCEPT !.row = to]
    ELSE IF anchor.row = to THEN [anchor EXCEPT !.row = from]
    ELSE anchor

map_anchor_row_move(anchor, table_node_index, from, to) ==
    IF anchor.type # "TableCell" THEN anchor
    ELSE IF anchor.table_node_index # table_node_index THEN anchor
    ELSE IF anchor.row = from THEN [anchor EXCEPT !.row = to]
    ELSE IF from < to
         THEN IF anchor.row > from /\ anchor.row <= to
              THEN [anchor EXCEPT !.row = @ - 1] ELSE anchor
    ELSE IF to < from
         THEN IF anchor.row >= to /\ anchor.row < from
              THEN [anchor EXCEPT !.row = @ + 1] ELSE anchor
    ELSE anchor

\* a faulty map_anchor_col_move: the anchors between from and to stay
map_anchor_col_move_no_shift(anchor, table_node_index, from, to) ==
    IF anchor.type # "TableCell" THEN anchor
    ELSE IF anchor.table_node_index # table_node_index THEN anchor
    ELSE IF anchor.col = from THEN [anchor EXCEPT !.col = to]
    ELSE anchor

map_anchor_col_move(anchor, table_node_index, from, to) ==
    IF anchor.type # "TableCell" THEN anchor
    ELSE IF anchor.table_node_index # table_node_index THEN anchor
    ELSE IF anchor.col = from THEN [anchor EXCEPT !.col = to]
    ELSE IF from < to
         THEN IF anchor.col > from /\ anchor.col <= to
              THEN [anchor EXCEPT !.col = @ - 1] ELSE anchor
    ELSE IF to < from
         THEN IF anchor.col >= to /\ anchor.col < from
              THEN [anchor EXCEPT !.col = @ + 1] ELSE anchor
    ELSE anchor

\* a faulty mapping: the anchors collapse to the first corner given
map_anchor_merge_first_corner(anchor, table_node_index, sr, sc, er, ec) ==
    IF anchor.type # "TableCell" THEN anchor
    ELSE IF anchor.table_node_index # table_node_index THEN anchor
    ELSE IF /\ anchor.row >= Min(sr, er) /\ anchor.row <= Max(sr, er)
            /\ anchor.col >= Min(sc, ec) /\ anchor.col <= Max(sc, ec)
         THEN [anchor EXCEPT !.row = sr, !.col = sc]
         ELSE anchor

map_anchor_merge(anchor, table_node_index, sr, sc, er, ec) ==
    IF anchor.type # "TableCell" THEN anchor
    ELSE IF anchor.table_node_index # table_node_index THEN anchor
    ELSE LET min_r == Min(sr, er)
             min_c == Min(sc, ec)
             max_r == Max(sr, er)
             max_c == Max(sc, ec)
         IN IF /\ anchor.row >= min_r /\ anchor.row <= max_r
               /\ anchor.col >= min_c /\ anchor.col <= max_c
            THEN [anchor EXCEPT !.row = min_r, !.col = min_c]
            ELSE anchor

\* [selection, panic]: the start is mapped, then the end; a panic on the end
\* leaves the start mapped
MappedEnds(range, a, b) ==
    IF a.panic THEN [selection |-> range, panic |-> TRUE]
    ELSE [selection |-> SelectionRange(a.anchor, b.anchor), panic |-> b.panic]

map_table_row_insert(range, table_node_index, at_row, overflow_checks) ==
    MappedEnds(range,
               map_anchor_row_insert(range.start, table_node_index, at_row, overflow_checks),
               map_anchor_row_insert(range.end, table_node_index, at_row, overflow_checks))

map_table_col_insert(range, table_node_index, at_col, overflow_checks) ==
    MappedEnds(range,
               map_anchor_col_insert(range.start, table_node_index, at_col, overflow_checks),
               map_anchor_col_insert(range.end, table_node_index, at_col, overflow_checks))

map_table_row_move(range, table_node_index, from, to) ==
    SelectionRange(map_anchor_row_move(range.start, table_node_index, from, to),
                   map_anchor_row_move(range.end, table_node_index, from, to))

map_table_col_move(range, table_node_index, from, to) ==
    SelectionRange(map_anchor_col_move(range.start, table_node_index, from, to),
                   map_anchor_col_move(range.end, table_node_index, from, to))

\* a faulty map_table_merge: the end of the range is not mapped
map_table_merge_start_only(range, table_node_index, sr, sc, er, ec) ==
    SelectionRange(map_anchor_merge(range.start, table_node_index, sr, sc, er, ec),
                   range.end)

map_table_merge(range, table_node_index, sr, sc, er, ec) ==
    SelectionRange(map_anchor_merge(range.start, table_node_index, sr, sc, er, ec),
                   map_anchor_merge(range.end, table_node_index, sr, sc, er, ec))

map_table_split(range, table_node_index, r, c) == range

----------------------------------------------------------------------------
(* comments.rs, and the comment methods of EditorCore (lib.rs) *)

CommentMessage(author, text, ts_ms) ==
    [author |-> author, text |-> text, ts_ms |-> ts_ms]

\* CommentThread::new
CommentThread_new(id, anchor) ==
    [id |-> id, resolved |-> FALSE, messages |-> <<>>, anchor |-> anchor]

\* CommentThread::add_message
add_message(thread, author, text, ts_ms) ==
    [thread EXCEPT !.messages = Append(@, CommentMessage(author, text, ts_ms))]

\* CommentThread::set_resolved
set_resolved(thread, resolved) == [thread EXCEPT !.resolved = resolved]

\* the decimal digits of n, as format!("{}", n) writes them
RECURSIVE Decimal(_)
Decimal(n) ==
    LET digit == <<<<"0", "1", "2", "3", "4", "5", "6", "7", "8", "9">>[(n % 10) + 1]>>
    IN IF n < 10 THEN digit ELSE Decimal(n \div 10) \o digit

\* format!("thread-{}", n)
ThreadId(n) == <<"t", "h", "r", "e", "a", "d", "-">> \o Decimal(n)

\* serde_json::from_str::<SelectionRange>(anchor_json).ok(): the range that
\* the text encodes, or None for text that encodes no range
ParseAnchor(anchor_json) ==
    IF anchor_json.kind = "range" THEN Some(anchor_json.range) ELSE None

\* a faulty add_comment: the threads are numbered from 0
EditorCore_add_comment_from_zero(d, anchor_json, text, h, now) ==
    LET id == ThreadId(Len(d.threads))
        thread == add_message(CommentThread_new(id, ParseAnchor(anchor_json)),
                              <<"u", "s", "e", "r">>, text, now)
    IN [doc |-> [d EXCEPT !.threads = Append(@, thread)],
        history |-> record_before_change(h, d),
        ret |-> id]

\* a faulty add_comment: every thread is given the id thread-1
EditorCore_add_comment_same_id(d, anchor_json, text, h, now) ==
    LET id == ThreadId(1)
        thread == add_message(CommentThread_new(id, ParseAnchor(anchor_json)),
                              <<"u", "s", "e", "r">>, text, now)
    IN [doc |-> [d EXCEPT !.threads = Append(@, thread)],
        history |-> record_before_change(h, d),
        ret |-> id]

\* [doc, history, ret]: EditorCore::add_comment, when current_time_ms()
\* returns now
EditorCore_add_comment(d, anchor_json, text, h, now) ==
    LET anchor == ParseAnchor(anchor_json)
        h2 == record_before_change(h, d)
        id == ThreadId(Len(d.threads) + 1)
        thread == add_message(CommentThread_new(id, anchor),
                              <<"u", "s", "e", "r">>, text, now)
    IN [doc |-> [d EXCEPT !.threads = Append(@, thread)],
        history |-> h2,
        ret |-> id]

\* a faulty resolve_comment: the snapshot is taken before the thread is sought
EditorCore_resolve_comment_records_first(d, thread_id, resolved, h) ==
    LET found == {i \in 1..Len(d.threads) : d.threads[i].id = thread_id}
        h2 == record_before_change(h, d)
    IN IF found = {} THEN R(d, h2)
       ELSE LET i == CHOOSE j \in found : \A k \in found : j <= k
            IN R([d EXCEPT !.threads[i] = set_resolved(@, resolved)], h2)

\* EditorCore::resolve_comment: the first thread with the id is the one found
EditorCore_resolve_comment(d, thread_id, resolved, h) ==
    LET found == {i \in 1..Len(d.threads) : d.threads[i].id = thread_id}
    IN IF found = {} THEN R(d, h)
       ELSE LET i == CHOOSE j \in found : \A k \in found : j <= k
            IN R([d EXCEPT !.threads[i] = set_resolved(@, resolved)],
                 record_before_change(h, d))

----------------------------------------------------------------------------
(* import_export.rs: from_quill_delta, and EditorCore::from_delta (lib.rs).  *)
(* A JSON value is [kind |-> "string", value |-> bytes] or                   *)
(* [kind |-> "object", fields |-> record]; an op of a delta is a record with *)
(* the keys it has, among insert and attributes.                             *)

\* the op has the attribute k
HasAttr(op, k) == "attributes" \in DOMAIN op /\ k \in DOMAIN op.attributes

\* attrs.and_then(|a| a.get(k)).and_then(|v| v.as_bool()).unwrap_or(false)
AttrFlag(op, k) == HasAttr(op, k) /\ op.attributes[k] = TRUE

\* [nodes, current_spans, current_text, current_header]: flush_para_or_heading
flush_para_or_heading(nodes, current_spans, current_text, current_header) ==
    LET spans == IF current_spans = <<>> THEN None ELSE Some(current_spans)
        node == IF current_header # None
                THEN [Heading(current_header[1], current_text) EXCEPT !.spans = spans]
                ELSE [Paragraph(current_text) EXCEPT !.spans = spans]
    IN [nodes |-> Append(nodes, node), current_spans |-> <<>>,
        current_text |-> <<>>, current_header |-> None]

\* the nodes from_quill_delta builds from the ops that are left, st being
\* what the loop holds: nodes, current_spans, current_text, current_header.
\* The inserts are strings, and objects with one of the keys image, formula
\* and comment.
RECURSIVE DeltaNodes(_, _)
DeltaNodes(ops, st) ==
    IF ops = <<>>
    THEN IF st.current_text # <<>> \/ st.current_spans # <<>>
         THEN flush_para_or_heading(st.nodes, st.current_spans, st.current_text,
                                    st.current_header).nodes
         ELSE st.nodes
    ELSE LET op == ops[1]
             flushed == flush_para_or_heading(st.nodes, st.current_spans,
                                              st.current_text, st.current_header)
             next ==
                IF "insert" \notin DOMAIN op THEN st
                ELSE IF op.insert.kind = "object"
                THEN LET obj == op.insert.fields
                     IN IF "image" \in DOMAIN obj
                        THEN [flushed EXCEPT !.nodes = Append(@, Image(obj.image, <<>>))]
                        ELSE IF "formula" \in DOMAIN obj
                        THEN [flushed EXCEPT !.nodes = Append(@, FormulaInline(obj.formula))]
                        ELSE IF "comment" \in DOMAIN obj
                        THEN [st EXCEPT !.nodes =
                                 Append(@, [type |-> "CommentAnchor",
                                            thread_id |-> obj.comment])]
                        ELSE st
                ELSE IF op.insert.value = <<"\n">>
                THEN LET header == IF HasAttr(op, "header")
                                   THEN Some(Max(1, Min(6, op.attributes.header % 256)))
                                   ELSE st.current_header
                     IN flush_para_or_heading(st.nodes, st.current_spans,
                                              st.current_text, header)
                ELSE LET style == [DefaultInlineStyle EXCEPT
                                      !.bold = AttrFlag(op, "bold"),
                                      !.italic = AttrFlag(op, "italic"),
                                      !.underline = AttrFlag(op, "underline"),
                                      !.code = AttrFlag(op, "code"),
                                      !.link = IF HasAttr(op, "link")
                                               THEN Some(op.attributes.link) ELSE None]
                     IN [st EXCEPT !.current_spans =
                                      Append(@, InlineSpan(op.insert.value, style)),
                                   !.current_text = @ \o op.insert.value]
         IN DeltaNodes(Tail(ops), next)

\* from_quill_delta: a value that is no object, or has no ops, has no op
from_quill_delta(delta) ==
    LET ops == IF delta.kind = "object" /\ "ops" \in DOMAIN delta.fields
               THEN delta.fields.ops ELSE <<>>
    IN [DefaultDoc EXCEPT !.nodes =
           DeltaNodes(ops, [nodes |-> <<>>, current_spans |-> <<>>,
                            current_text |-> <<>>, current_header |-> None])]

\* EditorCore::from_delta: text that is no JSON changes nothing
EditorCore_from_delta(d, delta_json, h) ==
    IF delta_json.kind = "invalid" THEN R(d, h)
    ELSE R(from_quill_delta(delta_json), record_before_change(h, d))

\* EditorCore::new_empty
EditorCore_new_empty == R(DefaultDoc, DefaultHistory)

\* EditorCore::from_json: Err on text that serde cannot read as a Doc, else
\* the document read and an empty history
EditorCore_from_json(json) ==
    IF json.kind = "invalid" THEN [ok |-> FALSE]
    ELSE [ok |-> TRUE, core |-> R(json.value, DefaultHistory)]

\* Editor::from_json of the wasm binding: an empty editor in place of Err
Editor_from_json(json) ==
    LET r == EditorCore_from_json(json)
    IN IF r.ok THEN r.core ELSE EditorCore_new_empty

\* Editor::from_delta of the wasm binding
Editor_from_delta(d, delta_json, h) == EditorCore_from_delta(d, delta_json, h)

----------------------------------------------------------------------------
(* lib.rs: EditorCore::move_row and EditorCore::move_col *)

\* Vec::remove(from) followed by Vec::insert(to), when from # to
MovedIfApart(v, from, to) ==
    IF from # to THEN InsertAt(RemoveAt(v, from), to, v[from + 1]) ELSE v

EditorCore_move_row(d, from, to, h) ==
    LET h2 == record_before_change(h, d)
    IN IF ~has_table(d) THEN R(d, h2)
       ELSE LET ti == first_table_indices(d)
                t == d.nodes[ti + 1]
                len == Len(t.rows)
                from_i == Min(from, Max(len - 1, 0))
                to_i == Min(to, Max(len - 1, 0))
            IN R(WithTable(d, ti, [t EXCEPT !.rows = MovedIfApart(@, from_i, to_i)]), h2)

\* every row clamps from and to by its own length, and column_widths, when
\* it is not empty, by its own
EditorCore_move_col(d, from, to, h) ==
    LET h2 == record_before_change(h, d)
    IN IF ~has_table(d) THEN R(d, h2)
       ELSE LET ti == first_table_indices(d)
                t == d.nodes[ti + 1]
                clamped(v) == MovedIfApart(v, Min(from, Max(Len(v) - 1, 0)),
                                           Min(to, Max(Len(v) - 1, 0)))
                rows2 == [r \in 1..Len(t.rows) |->
                            [t.rows[r] EXCEPT !.cells =
                                IF Len(@) = 0 THEN @ ELSE clamped(@)]]
            IN R(WithTable(d, ti,
                   [t EXCEPT !.rows = rows2,
                             !.column_widths = IF @ # <<>> THEN clamped(@) ELSE @]),
                 h2)

----------------------------------------------------------------------------
(* The editor as a state machine: one action per call *)

\* the calls that take a snapshot, edit the document, or both
MutatingOps ==
    {"insert_paragraph", "set_paragraph_text", "delete_node", "insert_table",
     "add_row", "add_col", "delete_row", "delete_col", "move_row", "move_col",
     "merge_cells", "merge_cells_at", "split_cell", "set_row_height",
     "set_column_width", "set_cell_text_at", "EditorCore_merge_cells"}

\* a call may be made: no earlier call panicked, and the undo stack has room
CanCall == ~panicked /\ Len(history.undo_stack) < limit

\* a call that returns nothing leaves r
Step(op, r) ==
    /\ doc' = r.doc
    /\ history' = r.history
    /\ last' = [op |-> op, ret |-> None]
    /\ UNCHANGED <<panicked, limit, selection>>

Init ==
    /\ doc = DefaultDoc
    /\ history = DefaultHistory
    /\ last = [op |-> "new_empty", ret |-> None]
    /\ panicked = FALSE
    /\ limit = MaxHist
    /\ selection = CaretAtStart

InsertParagraph ==
    \E at \in NodeIdx, text \in Texts :
        CanCall /\ Step("insert_paragraph", insert_paragraph(doc, at, text, history))

SetParagraphText ==
    \E index \in NodeIdx, text \in Texts :
        CanCall /\ Step("set_paragraph_text", set_paragraph_text(doc, index, text, history))

DeleteNode ==
    \E at \in NodeIdx : CanCall /\ Step("delete_node", delete_node(doc, at, history))

InsertTable ==
    \E rows \in Dim, cols \in Dim :
        CanCall /\ Step("insert_table", insert_table(doc, rows, cols, history))

AddRow == \E at \in Idx : CanCall /\ Step("add_row", add_row(doc, at, history))

AddCol == \E at \in Idx : CanCall /\ Step("add_col", add_col(doc, at, history))

DeleteRow == \E at \in Idx : CanCall /\ Step("delete_row", delete_row(doc, at, history))

DeleteCol == \E at \in Idx : CanCall /\ Step("delete_col", delete_col(doc, at, history))

MoveRow ==
    \E from \in Idx, to \in Idx : CanCall /\ Step("move_row", move_row(doc, from, to, history))

MoveCol ==
    \E from \in Idx, to \in Idx : CanCall /\ Step("move_col", move_col(doc, from, to, history))

MergeCells ==
    \E sr \in Idx, sc \in Idx, er \in Idx, ec \in Idx :
        CanCall /\ Step("merge_cells", merge_cells(doc, sr, sc, er, ec, history))

MergeCellsAt ==
    \E i \in Idx, sr \in Idx, sc \in Idx, er \in Idx, ec \in Idx :
        CanCall /\ Step("merge_cells_at", merge_cells_at(doc, i, sr, sc, er, ec, history))

SplitCell ==
    \E r \in Idx, c \in Idx : CanCall /\ Step("split_cell", split_cell(doc, r, c, history))

SetRowHeight ==
    \E r \in Idx, px \in Px : CanCall /\ Step("set_row_height", set_row_height(doc, r, px, history))

SetColumnWidth ==
    \E col \in Idx, px \in Px :
        CanCall /\ Step("set_column_width", set_column_width(doc, col, px, history))

SetCellTextAt ==
    \E i \in Idx, r \in Idx, c \in Idx, text \in Texts :
        CanCall /\ Step("set_cell_text_at", set_cell_text_at(doc, i, r, c, text, history))

\* EditorCore::merge_cells
CoreMergeCells ==
    \E sr \in Idx, sc \in Idx, er \in Idx, ec \in Idx :
        LET r == EditorCore_merge_cells(doc, sr, sc, er, ec, history)
        IN /\ CanCall
           /\ doc' = r.doc
           /\ history' = r.history
           /\ last' = [op |-> "EditorCore_merge_cells", ret |-> None]
           /\ panicked' = r.panic
           /\ UNCHANGED <<limit, selection>>

SplitCellAt ==
    \E i \in Idx, r \in Idx, c \in Idx :
        CanCall /\ Step("split_cell_at", split_cell_at(doc, i, r, c, history))

\* EditorCore::split_cell
CoreSplitCell ==
    \E r \in Idx, c \in Idx :
        CanCall /\ Step("EditorCore_split_cell", EditorCore_split_cell(doc, r, c, history))

\* a call that returns nothing, or panics, leaves r
StepOrPanic(op, r) ==
    /\ doc' = r.doc
    /\ history' = r.history
    /\ last' = [op |-> op, ret |-> None]
    /\ panicked' = r.panic
    /\ UNCHANGED <<limit, selection>>

InsertTableAt ==
    \E after_index \in NodePos, n \in Dim, overflow_checks \in BOOLEAN :
        /\ CanCall
        /\ StepOrPanic("insert_table_at",
              insert_table_at(doc, after_index, n, n, history, overflow_checks))

InsertFormulaInlineAt ==
    \E after_index \in NodePos, overflow_checks \in BOOLEAN :
        /\ CanCall
        /\ StepOrPanic("insert_formula_inline_at",
              insert_formula_inline_at(doc, after_index, <<"x">>, history, overflow_checks))

InsertFormulaBlockAt ==
    \E after_index \in NodePos, overflow_checks \in BOOLEAN :
        /\ CanCall
        /\ StepOrPanic("insert_formula_block_at",
              insert_formula_block_at(doc, after_index, <<"x">>, history, overflow_checks))

InsertImageAt ==
    \E after_index \in NodePos, overflow_checks \in BOOLEAN :
        /\ CanCall
        /\ StepOrPanic("insert_image_at",
              insert_image_at(doc, after_index, <<"s">>, <<"t">>, history, overflow_checks))

\* insert_paragraph, delete_node and set_paragraph_text at any usize
InsertParagraphAt ==
    \E at \in NodePos, text \in Texts :
        CanCall /\ Step("insert_paragraph", insert_paragraph(doc, at, text, history))

DeleteNodeAt ==
    \E at \in NodePos : CanCall /\ Step("delete_node", delete_node(doc, at, history))

SetParagraphTextAt ==
    \E index \in NodePos, text \in Texts :
        CanCall /\ Step("set_paragraph_text", set_paragraph_text(doc, index, text, history))

SetTextStyle ==
    \E index \in NodeIdx, start \in Offsets, end \in Offsets, style_json \in StyleJsons :
        /\ CanCall
        /\ StepOrPanic("set_text_style",
              set_text_style(doc, index, start, end, style_json, history))

SetCellTextStyle ==
    \E r \in StyleCellPos, c \in StyleCellPos, start \in Offsets, end \in Offsets,
       style_json \in StyleJsons :
        /\ CanCall
        /\ StepOrPanic("set_cell_text_style",
              set_cell_text_style(doc, r, c, start, end, style_json, history))

SetCellTextStyleAt ==
    \E i \in NodeIdx, r \in StyleCellPos, c \in StyleCellPos,
       start \in Offsets, end \in Offsets, style_json \in StyleJsons :
        /\ CanCall
        /\ StepOrPanic("set_cell_text_style_at",
              set_cell_text_style_at(doc, i, r, c, start, end, style_json, history))

\* set_paragraph_text and set_cell_text_at, of the texts that get styles
ReplaceParagraphText ==
    \E index \in NodeIdx, text \in StyleTexts :
        CanCall /\ Step("set_paragraph_text", set_paragraph_text(doc, index, text, history))

ReplaceCellText ==
    \E i \in NodeIdx, r \in NodeIdx, c \in NodeIdx, text \in StyleTexts :
        CanCall /\ Step("set_cell_text_at", set_cell_text_at(doc, i, r, c, text, history))

\* EditorCore::undo
Undo ==
    LET r == undo(history, doc)
    IN /\ ~panicked
       /\ doc' = r.doc
       /\ history' = r.history
       /\ last' = [op |-> "undo", ret |-> Some(r.ret)]
       /\ UNCHANGED <<panicked, limit, selection>>

\* EditorCore::redo
Redo ==
    LET r == redo(history, doc)
    IN /\ ~panicked
       /\ doc' = r.doc
       /\ history' = r.history
       /\ last' = [op |-> "redo", ret |-> Some(r.ret)]
       /\ UNCHANGED <<panicked, limit, selection>>

\* insert_table, of a table with as many columns as rows
InsertSquareTable ==
    \E n \in Dim : CanCall /\ Step("insert_table", insert_table(doc, n, n, history))

\* an editing session on the nodes of a document, with undo and redo
Next ==
    \/ InsertParagraph
    \/ SetParagraphText
    \/ DeleteNode
    \/ InsertSquareTable
    \/ Undo
    \/ Redo

Spec == Init /\ [][Next]_vars

\* a session of table edits on a new document
InitTable ==
    /\ doc = DefaultDoc
    /\ history = DefaultHistory
    /\ last = [op |-> "new_empty", ret |-> None]
    /\ panicked = FALSE
    /\ limit = MaxTableOps
    /\ selection = CaretAtStart

NextTable ==
    \/ InsertTable
    \/ AddRow
    \/ AddCol
    \/ DeleteRow
    \/ DeleteCol
    \/ MoveRow
    \/ MoveCol
    \/ MergeCells
    \/ SplitCell
    \/ SetColumnWidth
    \/ SetRowHeight

SpecTable == InitTable /\ [][NextTable]_vars

\* the name of the cell at the 1-based position <<r, c>>, as its text
CellName(r, c) == <<<<"a", "b", "c", "d">>[r], <<"1", "2", "3", "4">>[c]>>

\* a table the operations can build: rows x cols cells, 1x1 and no
\* placeholder, the cells at the positions in filled holding their name
NamedTable(rows, cols, filled) ==
    [NewTable(rows, cols) EXCEPT !.rows =
        [r \in 1..rows |->
            [cells |-> [c \in 1..cols |->
                          [DefaultCell EXCEPT !.text =
                              IF <<r, c>> \in filled THEN CellName(r, c) ELSE <<>>]],
             height_px |-> None]]]

\* no cell holds text, or all do, or the first alone, or all but the first
Fills(rows, cols) ==
    LET all == (1..rows) \X (1..cols)
    IN {{}, all, {<<1, 1>>}, all \ {<<1, 1>>}}

\* EditorCore::from_json of a document holding one table, alone or after a
\* paragraph; then one merge
InitMerge ==
    /\ \E rows \in Dim, cols \in Dim :
          \E filled \in Fills(rows, cols), lead \in {<<>>, <<Paragraph(<<"p">>)>>} :
              doc = [nodes |-> lead \o <<NamedTable(rows, cols, filled)>>,
                     threads |-> <<>>]
    /\ history = DefaultHistory
    /\ last = [op |-> "from_json", ret |-> None]
    /\ panicked = FALSE
    /\ limit = 1
    /\ selection = CaretAtStart

NextMerge ==
    \/ MergeCells
    \/ MergeCellsAt
    \/ CoreMergeCells

SpecMerge == InitMerge /\ [][NextMerge]_vars

\* EditorCore::from_json of a document holding one table; then a merge and
\* a split, in either order
InitSplit ==
    /\ \E rows \in Dim, cols \in Dim :
          \E filled \in {{}, (1..rows) \X (1..cols)} :
              doc = [nodes |-> <<NamedTable(rows, cols, filled)>>, threads |-> <<>>]
    /\ history = DefaultHistory
    /\ last = [op |-> "from_json", ret |-> None]
    /\ panicked = FALSE
    /\ limit = 2
    /\ selection = CaretAtStart

NextSplit ==
    \/ MergeCells
    \/ SplitCell
    \/ SplitCellAt
    \/ CoreSplitCell

SpecSplit == InitSplit /\ [][NextSplit]_vars

\* the nodes a document read by from_json holds
NodeKinds ==
    {Paragraph(<<"a">>), Heading(1, <<"a">>), NewTable(1, 1), Image(<<"s">>, <<"t">>)}

\* EditorCore::from_json of a document of up to MaxNodes nodes; then one
\* node operation
InitNodes ==
    /\ \E n \in 0..MaxNodes :
          \E nodes \in [1..n -> NodeKinds] : doc = [nodes |-> nodes, threads |-> <<>>]
    /\ history = DefaultHistory
    /\ last = [op |-> "from_json", ret |-> None]
    /\ panicked = FALSE
    /\ limit = 1
    /\ selection = CaretAtStart

NextNodes ==
    \/ InsertParagraphAt
    \/ InsertTableAt
    \/ InsertFormulaInlineAt
    \/ InsertFormulaBlockAt
    \/ InsertImageAt
    \/ DeleteNodeAt
    \/ SetParagraphTextAt

SpecNodes == InitNodes /\ [][NextNodes]_vars

\* EditorCore::from_json of a document without spans, holding a paragraph or
\* a table of one row; then text replacements, inline styles and merges
InitStyle ==
    /\ \E text \in StyleTexts :
          \/ doc = [nodes |-> <<Paragraph(text)>>, threads |-> <<>>]
          \/ doc = [nodes |-> <<[NewTable(1, 2) EXCEPT !.rows[1].cells[1].text = text,
                                                       !.rows[1].cells[2].text = text]>>,
                    threads |-> <<>>]
    /\ history = DefaultHistory
    /\ last = [op |-> "from_json", ret |-> None]
    /\ panicked = FALSE
    /\ limit = 2
    /\ selection = CaretAtStart

NextStyle ==
    \/ SetTextStyle
    \/ SetCellTextStyle
    \/ SetCellTextStyleAt
    \/ ReplaceParagraphText
    \/ ReplaceCellText
    \/ CoreMergeCells

SpecStyle == InitStyle /\ [][NextStyle]_vars

\* the rows and columns that anchors name at first
AnchorPos == 0..MaxAnchor

\* the rows and columns that are passed to the mappings, and that anchors name
MapPos == 0..(MaxAnchor + 1)

\* the anchors a selection starts from, with the character offset given
Anchors(char_offset) ==
    {Text(i, char_offset) : i \in AnchorTables}
    \cup {TableCell(t, r, c, char_offset) : t \in AnchorTables, r \in AnchorPos, c \in AnchorPos}

\* the two anchors of a range
Ends(range) == {range.start, range.end}

\* the caller maps its selection across an insert while the anchors name rows
\* and columns up to MaxAnchor
CanMapInsert ==
    /\ ~panicked
    /\ \A a \in Ends(selection) :
          a.type = "TableCell" => a.row <= MaxAnchor /\ a.col <= MaxAnchor

\* a mapping that may panic leaves r
MapOrPanic(op, r) ==
    /\ selection' = r.selection
    /\ panicked' = r.panic
    /\ last' = [op |-> op, ret |-> None]
    /\ UNCHANGED <<doc, history, limit>>

\* a mapping leaves the range r
Map(op, r) ==
    /\ selection' = r
    /\ last' = [op |-> op, ret |-> None]
    /\ UNCHANGED <<doc, history, panicked, limit>>

MapTableRowInsert ==
    \E t \in AnchorTables, at_row \in MapPos, overflow_checks \in BOOLEAN :
        /\ CanMapInsert
        /\ MapOrPanic("map_table_row_insert",
              map_table_row_insert(selection, t, at_row, overflow_checks))

MapTableColInsert ==
    \E t \in AnchorTables, at_col \in MapPos, overflow_checks \in BOOLEAN :
        /\ CanMapInsert
        /\ MapOrPanic("map_table_col_insert",
              map_table_col_insert(selection, t, at_col, overflow_checks))

MapTableRowMove ==
    \E t \in AnchorTables, from \in MapPos, to \in MapPos :
        /\ ~panicked
        /\ Map("map_table_row_move", map_table_row_move(selection, t, from, to))

MapTableColMove ==
    \E t \in AnchorTables, from \in MapPos, to \in MapPos :
        /\ ~panicked
        /\ Map("map_table_col_move", map_table_col_move(selection, t, from, to))

MapTableMerge ==
    \E t \in AnchorTables, sr \in MapPos, sc \in MapPos,
       er \in MapPos, ec \in MapPos :
        /\ ~panicked
        /\ Map("map_table_merge", map_table_merge(selection, t, sr, sc, er, ec))

MapTableSplit ==
    \E t \in AnchorTables, r \in MapPos, c \in MapPos :
        /\ ~panicked
        /\ Map("map_table_split", map_table_split(selection, t, r, c))

\* a caller that holds a selection on a document of two tables, its start not
\* after its end, and maps it across the table operations it makes
InitAnchors ==
    /\ doc = [nodes |-> <<NamedTable(MaxDim, MaxDim, (1..MaxDim) \X (1..MaxDim)),
                          NewTable(1, 1)>>,
              threads |-> <<>>]
    /\ history = DefaultHistory
    /\ last = [op |-> "from_json", ret |-> None]
    /\ panicked = FALSE
    /\ limit = 0
    /\ \E start \in Anchors(0), end \in Anchors(1) :
          /\ (/\ start.type = "TableCell"
              /\ end.type = "TableCell"
              /\ start.table_node_index = end.table_node_index)
             => (start.row < end.row \/ (start.row = end.row /\ start.col <= end.col))
          /\ selection = SelectionRange(start, end)

NextAnchors ==
    \/ MapTableRowInsert
    \/ MapTableColInsert
    \/ MapTableRowMove
    \/ MapTableColMove
    \/ MapTableMerge
    \/ MapTableSplit

SpecAnchors == InitAnchors /\ [][NextAnchors]_vars

\* anchor_json arguments: text that encodes no range, and a range
AnchorJsons ==
    {[kind |-> "invalid"],
     [kind |-> "range", range |-> SelectionRange(Text(0, 0), Text(0, 1))]}

\* what current_time_ms() returns
Clock == {1000, 2000}

\* thread_id arguments: the ids of the first threads, and one of no thread
ThreadIds == {ThreadId(n) : n \in 1..MaxHist} \cup {<<"x">>}

\* delta_json arguments: text that is no JSON, an object without ops, a
\* paragraph, and a heading of styled text followed by an image
DeltaJsons ==
    {[kind |-> "invalid"],
     [kind |-> "object", fields |-> [other |-> 0]],
     [kind |-> "object", fields |->
        [ops |-> <<[insert |-> [kind |-> "string", value |-> <<"a">>]],
                   [insert |-> [kind |-> "string", value |-> <<"\n">>]]>>]],
     [kind |-> "object", fields |->
        [ops |-> <<[insert |-> [kind |-> "string", value |-> <<"b">>],
                    attributes |-> [bold |-> TRUE]],
                   [insert |-> [kind |-> "string", value |-> <<"\n">>],
                    attributes |-> [header |-> 2]],
                   [insert |-> [kind |-> "object", fields |-> [image |-> <<"u">>]]]>>]]}

\* EditorCore::add_comment
AddComment ==
    \E anchor_json \in AnchorJsons, text \in Texts, now \in Clock :
        LET r == EditorCore_add_comment(doc, anchor_json, text, history, now)
        IN /\ CanCall
           /\ doc' = r.doc
           /\ history' = r.history
           /\ last' = [op |-> "add_comment", ret |-> Some(r.ret)]
           /\ UNCHANGED <<panicked, limit, selection>>

\* EditorCore::resolve_comment
ResolveComment ==
    \E thread_id \in ThreadIds, resolved \in BOOLEAN :
        /\ CanCall
        /\ Step("resolve_comment",
                EditorCore_resolve_comment(doc, thread_id, resolved, history))

\* EditorCore::from_delta
FromDelta ==
    \E delta_json \in DeltaJsons :
        CanCall /\ Step("from_delta", EditorCore_from_delta(doc, delta_json, history))

\* insert_paragraph, at the start of the document
InsertFirstParagraph ==
    \E text \in Texts :
        CanCall /\ Step("insert_paragraph", insert_paragraph(doc, 0, text, history))

\* a session of comments on a new document, with node and table edits, an
\* import, undo and redo
InitComments ==
    /\ doc = DefaultDoc
    /\ history = DefaultHistory
    /\ last = [op |-> "new_empty", ret |-> None]
    /\ panicked = FALSE
    /\ limit = MaxHist
    /\ selection = CaretAtStart

NextComments ==
    \/ AddComment
    \/ ResolveComment
    \/ FromDelta
    \/ InsertFirstParagraph
    \/ InsertSquareTable
    \/ Undo
    \/ Redo

SpecComments == InitComments /\ [][NextComments]_vars


\* EditorCore::set_column_width: the first table's width list is reset to 120
\* for each cell of the first row when it is shorter than that row, and px is
\* stored as passed
EditorCore_set_column_width(d, col, px, h) ==
    LET h2 == record_before_change(h, d)
    IN IF ~has_table(d) THEN R(d, h2)
       ELSE LET ti == first_table_indices(d)
                t == d.nodes[ti + 1]
                first == IF Len(t.rows) > 0 THEN Len(t.rows[1].cells) ELSE 0
                widths == IF Len(t.column_widths) < first
                          THEN [c \in 1..first |-> 120] ELSE t.column_widths
            IN R(WithTable(d, ti,
                   [t EXCEPT !.column_widths =
                       IF col < Len(widths) THEN SetAt(widths, col, px) ELSE widths]), h2)

\* EditorCore::move_row
CoreMoveRow ==
    \E from \in Idx, to \in Idx :
        CanCall /\ Step("EditorCore_move_row", EditorCore_move_row(doc, from, to, history))

\* EditorCore::move_col
CoreMoveCol ==
    \E from \in Idx, to \in Idx :
        CanCall /\ Step("EditorCore_move_col", EditorCore_move_col(doc, from, to, history))

\* EditorCore::from_json of a document holding one table of named cells, with
\* the widths of its columns or without column_widths; then two moves
InitMove ==
    /\ \E rows \in Dim, cols \in Dim, widths \in BOOLEAN :
          doc = [nodes |-> <<[NamedTable(rows, cols, (1..rows) \X (1..cols))
                                EXCEPT !.column_widths =
                                          IF widths THEN [c \in 1..cols |-> 100 + c]
                                          ELSE <<>>]>>,
                 threads |-> <<>>]
    /\ history = DefaultHistory
    /\ last = [op |-> "from_json", ret |-> None]
    /\ panicked = FALSE
    /\ limit = 2
    /\ selection = CaretAtStart

NextMove ==
    \/ MoveRow
    \/ MoveCol
    \/ CoreMoveRow
    \/ CoreMoveCol

SpecMove == InitMove /\ [][NextMove]_vars


SetColumnWidthAt ==
    \E i \in NodeIdx, col \in Idx, px \in Px :
        CanCall /\ Step("set_column_width_at", set_column_width_at(doc, i, col, px, history))

SetRowHeightAt ==
    \E i \in NodeIdx, r \in Idx, px \in Px :
        CanCall /\ Step("set_row_height_at", set_row_height_at(doc, i, r, px, history))

CoreSetColumnWidth ==
    \E col \in Idx, px \in Px :
        CanCall /\ Step("EditorCore::set_column_width",
                        EditorCore_set_column_width(doc, col, px, history))

\* a session of table insertions and size settings on a new document
InitSize ==
    /\ doc = DefaultDoc
    /\ history = DefaultHistory
    /\ last = [op |-> "new_empty", ret |-> None]
    /\ panicked = FALSE
    /\ limit = MaxHist
    /\ selection = CaretAtStart

NextSize ==
    \/ InsertTable
    \/ SetColumnWidth
    \/ SetRowHeight
    \/ SetColumnWidthAt
    \/ SetRowHeightAt
    \/ CoreSetColumnWidth

SpecSize == InitSize /\ [][NextSize]_vars

----------------------------------------------------------------------------
(* Every call of a mutating operation, with its arguments *)

Call(op, args) == [op |-> op, args |-> args]

NodeCalls ==
    {Call("insert_paragraph", <<at, text>>) : at \in NodeIdx, text \in Texts}
    \cup {Call("set_paragraph_text", <<index, text>>) : index \in NodeIdx, text \in Texts}
    \cup {Call("delete_node", <<at>>) : at \in NodeIdx}
    \cup {Call("insert_table", <<rows, cols>>) : rows \in Dim, cols \in Dim}

TableCalls ==
    {Call(op, <<at>>) : op \in {"add_row", "add_col", "delete_row", "delete_col"},
                        at \in Idx}
    \cup {Call(op, <<from, to>>) : op \in {"move_row", "move_col", "split_cell"},
                                   from \in Idx, to \in Idx}
    \cup {Call(op, <<i, px>>) : op \in {"set_row_height", "set_column_width"},
                                i \in Idx, px \in Px}
    \cup {Call("set_cell_text_at", <<i, rc, rc, text>>) :
              i \in Idx, rc \in Idx, text \in Texts}

\* merges of the squares with the corners (a, a) and (b, b)
MergeCalls ==
    {Call(op, <<a, a, b, b>>) :
        op \in {"merge_cells", "EditorCore_merge_cells"}, a \in Idx, b \in Idx}
    \cup {Call("merge_cells_at", <<i, 0, 0, b, b>>) : i \in Idx, b \in Idx}

Calls == NodeCalls \cup TableCalls \cup MergeCalls

\* the document and the history the call c leaves, made on d and h
Apply(c, d, h) ==
    LET a == c.args
    IN CASE c.op = "insert_paragraph" -> insert_paragraph(d, a[1], a[2], h)
         [] c.op = "set_paragraph_text" -> set_paragraph_text(d, a[1], a[2], h)
         [] c.op = "delete_node" -> delete_node(d, a[1], h)
         [] c.op = "insert_table" -> insert_table(d, a[1], a[2], h)
         [] c.op = "add_row" -> add_row(d, a[1], h)
         [] c.op = "add_col" -> add_col(d, a[1], h)
         [] c.op = "delete_row" -> delete_row(d, a[1], h)
         [] c.op = "delete_col" -> delete_col(d, a[1], h)
         [] c.op = "move_row" -> move_row(d, a[1], a[2], h)
         [] c.op = "move_col" -> move_col(d, a[1], a[2], h)
         [] c.op = "split_cell" -> split_cell(d, a[1], a[2], h)
         [] c.op = "set_row_height" -> set_row_height(d, a[1], a[2], h)
         [] c.op = "set_column_width" -> set_column_width(d, a[1], a[2], h)
         [] c.op = "set_cell_text_at" -> set_cell_text_at(d, a[1], a[2], a[3], a[4], h)
         [] c.op = "merge_cells" -> merge_cells(d, a[1], a[2], a[3], a[4], h)
         [] c.op = "merge_cells_at" -> merge_cells_at(d, a[1], a[2], a[3], a[4], a[5], h)
         [] c.op = "EditorCore_merge_cells" ->
                LET r == EditorCore_merge_cells(d, a[1], a[2], a[3], a[4], h)
                IN R(r.doc, r.history)

----------------------------------------------------------------------------
(* History: undo and redo (C1 to C5), under Spec *)

RECURSIVE UndoTimes(_, _)
UndoTimes(s, k) ==
    IF k = 0 THEN s
    ELSE LET u == undo(s.history, s.doc) IN UndoTimes(R(u.doc, u.history), k - 1)

RECURSIVE RedoTimes(_, _)
RedoTimes(s, k) ==
    IF k = 0 THEN s
    ELSE LET u == redo(s.history, s.doc) IN RedoTimes(R(u.doc, u.history), k - 1)

\* C2: k successful undos and then k redos bring back the document, the undo
\* stack and the redo stack, for every k the undo stack allows.
C2_RedoInvertsUndo ==
    \A k \in 0..Len(history.undo_stack) :
        RedoTimes(UndoTimes(R(doc, history), k), k) = R(doc, history)

\* a redo has just brought back the last of two undone calls
C2_Witness ==
    /\ last = [op |-> "redo", ret |-> Some(TRUE)]
    /\ Len(history.undo_stack) = 2
    /\ history.redo_stack = <<>>
    /\ history.undo_stack[1] # history.undo_stack[2]
    /\ history.undo_stack[2] # doc

C4_EmptyStackNoOp ==
    /\ history.undo_stack = <<>> =>
          undo(history, doc) = [history |-> history, doc |-> doc, ret |-> FALSE]
    /\ history.redo_stack = <<>> =>
          redo(history, doc) = [history |-> history, doc |-> doc, ret |-> FALSE]
    /\ last = [op |-> "undo", ret |-> Some(FALSE)] => history.undo_stack = <<>>
    /\ last = [op |-> "redo", ret |-> Some(FALSE)] => history.redo_stack = <<>>

\* an undo has just failed on an empty undo stack, with a snapshot to redo
C4_Witness ==
    /\ last = [op |-> "undo", ret |-> Some(FALSE)]
    /\ history.undo_stack = <<>>
    /\ history.redo_stack # <<>>

\* the calls C5 names as calls that take no effect
NoEffect(c, d) ==
    LET a == c.args
        t == FirstTable(d)
        last_row == Max(Len(t.rows) - 1, 0)
        last_col == Max(Len(t.column_widths) - 1, 0)
    IN \/ c.op = "delete_node" /\ a[1] >= Len(d.nodes)
       \/ /\ c.op = "set_paragraph_text"
          /\ (a[1] >= Len(d.nodes) \/ d.nodes[a[1] + 1].type # "Paragraph")
       \/ c.op \in {"delete_row", "delete_col", "move_row", "move_col"} /\ ~has_table(d)
       \/ c.op = "delete_row" /\ has_table(d) /\ a[1] >= Len(t.rows)
       \/ c.op = "delete_col" /\ has_table(d) /\ a[1] >= Len(t.column_widths)
       \/ c.op = "move_row" /\ has_table(d) /\ Min(a[1], last_row) = Min(a[2], last_row)
       \/ c.op = "move_col" /\ has_table(d) /\ Min(a[1], last_col) = Min(a[2], last_col)

----------------------------------------------------------------------------
(* The table grid (C6, C7), under SpecTable *)

Tables(d) == {d.nodes[i] : i \in {j \in 1..Len(d.nodes) : IsTable(d.nodes[j])}}

\* the 1-based positions of the cells of t
Cells(t) ==
    UNION {{<<r, c>> : c \in 1..Len(t.rows[r].cells)} : r \in 1..Len(t.rows)}

CellAt(t, p) == t.rows[p[1]].cells[p[2]]

\* C6, as claimed: in every table every row has the same number of cells, and
\* that number is the length of column_widths when column_widths is not empty.
C6_Rectangular ==
    \A t \in Tables(doc) :
        \A r \in 1..Len(t.rows) :
            /\ Len(t.rows[r].cells) = Len(t.rows[1].cells)
            /\ t.column_widths # <<>> => Len(t.rows[r].cells) = Len(t.column_widths)

\* p is a master of t: a cell that is no placeholder and spans more than itself
IsMaster(t, p) ==
    /\ ~CellAt(t, p).placeholder
    /\ (CellAt(t, p).colspan > 1 \/ CellAt(t, p).rowspan > 1)

\* the cell q lies in the rectangle the cell p spans
Covers(t, p, q) ==
    /\ p[1] <= q[1] /\ q[1] < p[1] + CellAt(t, p).rowspan
    /\ p[2] <= q[2] /\ q[2] < p[2] + CellAt(t, p).colspan

\* C7, as claimed: every placeholder is 1x1 with empty text and lies in the
\* rectangle of exactly one master, and every cell that spans more than itself
\* is no placeholder and all other cells of its rectangle are placeholders.
C7_MasterPlaceholder ==
    \A t \in Tables(doc) :
        \A p \in Cells(t) :
            /\ CellAt(t, p).placeholder =>
                  /\ CellAt(t, p).colspan = 1 /\ CellAt(t, p).rowspan = 1
                  /\ CellAt(t, p).text = <<>>
                  /\ Cardinality({m \in Cells(t) :
                        m # p /\ IsMaster(t, m) /\ Covers(t, m, p)}) = 1
            /\ (CellAt(t, p).colspan > 1 \/ CellAt(t, p).rowspan > 1) =>
                  /\ ~CellAt(t, p).placeholder
                  /\ \A r \in p[1]..(p[1] + CellAt(t, p).rowspan - 1),
                        c \in p[2]..(p[2] + CellAt(t, p).colspan - 1) :
                        <<r, c>> # p =>
                            <<r, c>> \in Cells(t) /\ CellAt(t, <<r, c>>).placeholder

----------------------------------------------------------------------------
(* merge_cells (C8 to C10), under SpecMerge *)

\* pairs a <= b of positions
Ordered == {p \in Idx \X Idx : p[1] <= p[2]}

\* C8: merge_cells and merge_cells_at leave the same document and history for
\* the corners (r1,c1),(r2,c2) as for (r2,c2),(r1,c1), for (r1,c2),(r2,c1) and
\* for (r2,c1),(r1,c2), in range or not.
C8_MergeCornerOrder ==
    \A rr \in Ordered, cc \in Ordered :
        LET r1 == rr[1]
            r2 == rr[2]
            c1 == cc[1]
            c2 == cc[2]
            m == merge_cells(doc, r1, c1, r2, c2, history)
        IN /\ merge_cells(doc, r2, c2, r1, c1, history) = m
           /\ merge_cells(doc, r1, c2, r2, c1, history) = m
           /\ merge_cells(doc, r2, c1, r1, c2, history) = m
           /\ \A i \in Idx :
                 LET n == merge_cells_at(doc, i, r1, c1, r2, c2, history)
                 IN /\ merge_cells_at(doc, i, r2, c2, r1, c1, history) = n
                    /\ merge_cells_at(doc, i, r1, c2, r2, c1, history) = n
                    /\ merge_cells_at(doc, i, r2, c1, r1, c2, history) = n

\* merge_cells_at has just merged two rows and two columns into one cell that
\* is not the table's first cell, or is the first cell of a table after a
\* paragraph
C8_Witness ==
    /\ last.op = "merge_cells_at"
    /\ \E p \in Cells(FirstTable(doc)) :
          /\ CellAt(FirstTable(doc), p).rowspan > 1
          /\ CellAt(FirstTable(doc), p).colspan > 1
    /\ first_table_indices(doc) = 1

\* the merges of the first table of d with both corners in range: the 0-based
\* <<sr, sc, er, ec>>
InRangeCorners(d) ==
    LET t == FirstTable(d)
    IN {a \in Idx \X Idx \X Idx \X Idx :
           /\ a[1] < Len(t.rows) /\ a[3] < Len(t.rows)
           /\ \A r \in 1..Len(t.rows) :
                 a[2] < Len(t.rows[r].cells) /\ a[4] < Len(t.rows[r].cells)}

\* the merged table t2 is the table t with the rectangle of the corners a
\* merged: the top-left cell spans the rectangle, every other cell of the
\* rectangle is a placeholder, every cell outside it is the cell it was
MergedAsClaimed(t, t2, a) ==
    LET min_r == Min(a[1], a[3]) + 1
        max_r == Max(a[1], a[3]) + 1
        min_c == Min(a[2], a[4]) + 1
        max_c == Max(a[2], a[4]) + 1
        inside(p) == min_r <= p[1] /\ p[1] <= max_r /\ min_c <= p[2] /\ p[2] <= max_c
    IN /\ Cells(t2) = Cells(t)
       /\ CellAt(t2, <<min_r, min_c>>).rowspan = max_r - min_r + 1
       /\ CellAt(t2, <<min_r, min_c>>).colspan = max_c - min_c + 1
       /\ \A p \in Cells(t) :
             /\ inside(p) /\ p # <<min_r, min_c>> => CellAt(t2, p).placeholder
             /\ ~inside(p) => CellAt(t2, p) = CellAt(t, p)
       /\ [t2 EXCEPT !.rows = t.rows] = t
       /\ \A r \in 1..Len(t.rows) : t2.rows[r].height_px = t.rows[r].height_px

\* C9: after merge_cells, merge_cells_at or EditorCore::merge_cells over a
\* rectangle in range, the top-left cell has the rectangle's height as rowspan
\* and its width as colspan, every other cell of the rectangle is a
\* placeholder, and nothing outside the rectangle has changed.
C9_MergeSpansRectangle ==
    has_table(doc) =>
        LET ti == first_table_indices(doc)
            t == FirstTable(doc)
            frame(d2) == /\ Len(d2.nodes) = Len(doc.nodes)
                         /\ \A i \in 1..Len(doc.nodes) :
                               i # ti + 1 => d2.nodes[i] = doc.nodes[i]
                         /\ d2.threads = doc.threads
        IN \A a \in InRangeCorners(doc) :
              LET m == merge_cells(doc, a[1], a[2], a[3], a[4], history).doc
                  n == merge_cells_at(doc, ti, a[1], a[2], a[3], a[4], history).doc
                  e == EditorCore_merge_cells(doc, a[1], a[2], a[3], a[4], history)
              IN /\ frame(m) /\ MergedAsClaimed(t, m.nodes[ti + 1], a)
                 /\ frame(n) /\ MergedAsClaimed(t, n.nodes[ti + 1], a)
                 /\ frame(e.doc) /\ MergedAsClaimed(t, e.doc.nodes[ti + 1], a)
                 /\ ~e.panic

\* merge_cells has just merged two cells of one column: the upper one spans
\* two rows and one column, the lower one is a placeholder
C9_Witness ==
    /\ last.op = "merge_cells"
    /\ LET t == FirstTable(doc)
       IN /\ Len(t.rows) = 2
          /\ Len(t.rows[1].cells) = 2
          /\ CellAt(t, <<1, 2>>).rowspan = 2
          /\ CellAt(t, <<1, 2>>).colspan = 1
          /\ CellAt(t, <<2, 2>>).placeholder
          /\ ~CellAt(t, <<2, 1>>).placeholder

\* the texts in ts that are not empty, joined by single spaces
RECURSIVE SpaceJoined(_)
SpaceJoined(ts) ==
    IF ts = <<>> THEN <<>>
    ELSE IF ts[1] = <<>> THEN SpaceJoined(Tail(ts))
    ELSE LET rest == SpaceJoined(Tail(ts))
         IN IF rest = <<>> THEN ts[1] ELSE ts[1] \o <<" ">> \o rest

\* the texts of the cells of t in the rectangle of the corners a, the top-left
\* cell first and the others in row-major order
RectangleTexts(t, a) ==
    LET ps == RowMajor(Min(a[1], a[3]), Min(a[2], a[4]), Min(a[2], a[4]),
                       Max(a[1], a[3]), Max(a[2], a[4]))
    IN [i \in 1..Len(ps) |-> CellAt(t, <<ps[i][1] + 1, ps[i][2] + 1>>).text]

\* the merged table t2 holds the texts of the rectangle of the corners a of t,
\* space-joined, in its top-left cell, and no text in the rectangle's other cells
TextMergedAsClaimed(t, t2, a) ==
    LET min_r == Min(a[1], a[3]) + 1
        max_r == Max(a[1], a[3]) + 1
        min_c == Min(a[2], a[4]) + 1
        max_c == Max(a[2], a[4]) + 1
    IN /\ CellAt(t2, <<min_r, min_c>>).text = SpaceJoined(RectangleTexts(t, a))
       /\ \A r \in min_r..max_r, c \in min_c..max_c :
             <<r, c>> # <<min_r, min_c>> => CellAt(t2, <<r, c>>).text = <<>>

\* C10, as claimed: after a merge over a rectangle in range, by merge_cells,
\* merge_cells_at or EditorCore::merge_cells, the top-left cell's text is the
\* space-joined texts of the rectangle's cells, its own first and the others
\* in row-major order, and every other cell of the rectangle has no text.
C10_MergeJoinsText ==
    has_table(doc) =>
        LET ti == first_table_indices(doc)
            t == FirstTable(doc)
        IN \A a \in InRangeCorners(doc) :
              /\ TextMergedAsClaimed(t,
                    EditorCore_merge_cells(doc, a[1], a[2], a[3], a[4], history)
                        .doc.nodes[ti + 1], a)
              /\ TextMergedAsClaimed(t,
                    merge_cells(doc, a[1], a[2], a[3], a[4], history).doc.nodes[ti + 1], a)
              /\ TextMergedAsClaimed(t,
                    merge_cells_at(doc, ti, a[1], a[2], a[3], a[4], history)
                        .doc.nodes[ti + 1], a)

\* the same of EditorCore::merge_cells alone, which the code satisfies
C10_CoreMergeJoinsText ==
    has_table(doc) =>
        LET ti == first_table_indices(doc)
            t == FirstTable(doc)
        IN \A a \in InRangeCorners(doc) :
              TextMergedAsClaimed(t,
                  EditorCore_merge_cells(doc, a[1], a[2], a[3], a[4], history)
                      .doc.nodes[ti + 1], a)

----------------------------------------------------------------------------
(* split_cell (C11 to C13), under SpecSplit *)

\* the 0-based coordinates <<r, c>> of the cells of the first table of d
InRangeCells(d) ==
    {<<p[1] - 1, p[2] - 1>> : p \in Cells(FirstTable(d))}

\* the split table t2 is the table t split at the 0-based a as claimed: the
\* cell at a is 1x1 and has kept its placeholder flag, every other cell of
\* the rectangle it spanned is 1x1 and no placeholder, and every cell
\* outside that rectangle is the cell it was
SplitAsClaimed(t, t2, a) ==
    LET target == <<a[1] + 1, a[2] + 1>>
        inside(p) == /\ target[1] <= p[1] /\ p[1] < target[1] + CellAt(t, target).rowspan
                     /\ target[2] <= p[2] /\ p[2] < target[2] + CellAt(t, target).colspan
    IN /\ Cells(t2) = Cells(t)
       /\ CellAt(t2, target).rowspan = 1
       /\ CellAt(t2, target).colspan = 1
       /\ CellAt(t2, target).placeholder = CellAt(t, target).placeholder
       /\ \A p \in Cells(t) :
             /\ inside(p) /\ p # target =>
                   /\ ~CellAt(t2, p).placeholder
                   /\ CellAt(t2, p).rowspan = 1
                   /\ CellAt(t2, p).colspan = 1
             /\ ~inside(p) => CellAt(t2, p) = CellAt(t, p)

\* C11, as claimed: split_cell and split_cell_at at an in-range cell make that
\* cell 1x1 and leave its placeholder flag alone, make every other cell of
\* the rectangle it spanned 1x1 and no placeholder, and change no cell
\* outside that rectangle.
C11_SplitResetsRectangle ==
    has_table(doc) =>
        LET ti == first_table_indices(doc)
            t == FirstTable(doc)
        IN \A a \in InRangeCells(doc) :
              /\ SplitAsClaimed(t, split_cell(doc, a[1], a[2], history).doc.nodes[ti + 1], a)
              /\ SplitAsClaimed(t,
                    split_cell_at(doc, ti, a[1], a[2], history).doc.nodes[ti + 1], a)

\* the colspan, rowspan and placeholder flag of every cell of t
Layout(t) ==
    [p \in Cells(t) |-> [colspan |-> CellAt(t, p).colspan,
                         rowspan |-> CellAt(t, p).rowspan,
                         placeholder |-> CellAt(t, p).placeholder]]

\* every cell of the rectangle of the corners a of t is 1x1 and no placeholder
Unmerged(t, a) ==
    \A r \in Min(a[1], a[3])..Max(a[1], a[3]), c \in Min(a[2], a[4])..Max(a[2], a[4]) :
        /\ CellAt(t, <<r + 1, c + 1>>).colspan = 1
        /\ CellAt(t, <<r + 1, c + 1>>).rowspan = 1
        /\ ~CellAt(t, <<r + 1, c + 1>>).placeholder

\* C12: on a table whose cells in an in-range rectangle are all 1x1 and no
\* placeholders, a merge over the rectangle and then a split at its top-left
\* corner leave every cell of the table with the colspan, rowspan and
\* placeholder flag it had; by merge_cells and split_cell, by merge_cells_at
\* and split_cell_at, and by the two EditorCore methods.
C12_SplitInvertsMerge ==
    has_table(doc) =>
        LET ti == first_table_indices(doc)
            t == FirstTable(doc)
        IN \A a \in InRangeCorners(doc) :
              Unmerged(t, a) =>
                 LET r == Min(a[1], a[3])
                     c == Min(a[2], a[4])
                     m == merge_cells(doc, a[1], a[2], a[3], a[4], history)
                     n == merge_cells_at(doc, ti, a[1], a[2], a[3], a[4], history)
                     e == EditorCore_merge_cells(doc, a[1], a[2], a[3], a[4], history)
                 IN /\ Layout(split_cell(m.doc, r, c, m.history).doc.nodes[ti + 1])
                          = Layout(t)
                    /\ Layout(split_cell_at(n.doc, ti, r, c, n.history).doc.nodes[ti + 1])
                          = Layout(t)
                    /\ Layout(EditorCore_split_cell(e.doc, r, c, e.history).doc.nodes[ti + 1])
                          = Layout(t)

\* split_cell has just split the master of a merge made on a table without
\* spans: the layout is again the one before the merge
C12_Witness ==
    /\ last.op = "split_cell"
    /\ Len(history.undo_stack) = 2
    /\ LET before == history.undo_stack[1].nodes[1]
           merged == history.undo_stack[2].nodes[1]
       IN /\ \E p \in Cells(merged) : CellAt(merged, p).rowspan > 1
          /\ \E p \in Cells(merged) : CellAt(merged, p).placeholder
          /\ Layout(before) # Layout(merged)
          /\ Layout(doc.nodes[1]) = Layout(before)

\* the table t3, left by a split of the merged table t2 at the top-left of the
\* rectangle of the corners a, holds the merged text in that cell and no text
\* in the rectangle's other cells
TextLostAsClaimed(t2, t3, a) ==
    LET min_r == Min(a[1], a[3]) + 1
        min_c == Min(a[2], a[4]) + 1
    IN /\ CellAt(t3, <<min_r, min_c>>).text = CellAt(t2, <<min_r, min_c>>).text
       /\ \A r \in min_r..(Max(a[1], a[3]) + 1), c \in min_c..(Max(a[2], a[4]) + 1) :
             <<r, c>> # <<min_r, min_c>> => CellAt(t3, <<r, c>>).text = <<>>

\* C13, as claimed: after a merge over an in-range rectangle and a split at
\* its master, the master holds the text it held after the merge and every
\* other cell of the rectangle has no text; by merge_cells and split_cell,
\* and by the two EditorCore methods.
C13_MergeSplitLosesText ==
    has_table(doc) =>
        LET ti == first_table_indices(doc)
        IN \A a \in InRangeCorners(doc) :
              LET r == Min(a[1], a[3])
                  c == Min(a[2], a[4])
                  m == merge_cells(doc, a[1], a[2], a[3], a[4], history)
                  e == EditorCore_merge_cells(doc, a[1], a[2], a[3], a[4], history)
              IN /\ TextLostAsClaimed(e.doc.nodes[ti + 1],
                       EditorCore_split_cell(e.doc, r, c, e.history).doc.nodes[ti + 1], a)
                 /\ TextLostAsClaimed(m.doc.nodes[ti + 1],
                       split_cell(m.doc, r, c, m.history).doc.nodes[ti + 1], a)

----------------------------------------------------------------------------
(* Out-of-range positions (C14), under SpecMerge *)

\* the 0-based position <<r, c>> is no cell of t
NoCell(t, r, c) == r >= Len(t.rows) \/ c >= Len(t.rows[r + 1].cells)

\* C14, as claimed: no call has panicked, and a call of merge_cells,
\* split_cell, set_cell_text_at, set_row_height, set_column_width, delete_row,
\* delete_col or EditorCore::merge_cells with a row or column that is out of
\* range does not panic and leaves the document's nodes as they were.
C14_OutOfRangeIsNoOp ==
    /\ ~panicked
    /\ has_table(doc) =>
          LET ti == first_table_indices(doc)
              t == FirstTable(doc)
          IN /\ \A r \in Idx, c \in Idx :
                   NoCell(t, r, c) =>
                      /\ split_cell(doc, r, c, history).doc.nodes = doc.nodes
                      /\ \A text \in Texts :
                            set_cell_text_at(doc, ti, r, c, text, history).doc.nodes
                               = doc.nodes
                      /\ \A a \in InRangeCells(doc) :
                            /\ merge_cells(doc, a[1], a[2], r, c, history).doc.nodes
                                  = doc.nodes
                            /\ merge_cells(doc, r, c, a[1], a[2], history).doc.nodes
                                  = doc.nodes
                            /\ ~EditorCore_merge_cells(doc, a[1], a[2], r, c, history).panic
                            /\ EditorCore_merge_cells(doc, a[1], a[2], r, c, history).doc.nodes
                                  = doc.nodes
             /\ \A i \in Idx, px \in Px :
                   /\ i >= Len(t.rows) =>
                         /\ set_row_height(doc, i, px, history).doc.nodes = doc.nodes
                         /\ delete_row(doc, i, history).doc.nodes = doc.nodes
                   /\ i >= Len(t.column_widths) =>
                         /\ delete_col(doc, i, history).doc.nodes = doc.nodes
                         /\ set_column_width(doc, i, px, history).doc.nodes = doc.nodes

----------------------------------------------------------------------------
(* Node operations (C15 to C17), under SpecNodes *)

\* the node n is placed in d.nodes at the position at, and the nodes of d
\* keep their order around it
PlacedAt(d, d2, at, n) == d2.nodes = InsertAt(d.nodes, at, n)

\* C15, as claimed: insert_paragraph(at) places the new node at min(at, len),
\* and every insert_*_at(after_index) places it at min(after_index + 1, len)
\* without panicking, for every position up to usize::MAX; the other nodes
\* keep their order.
C15_InsertClamps ==
    LET len == Len(doc.nodes)
        after(i) == IF i = UsizeMax THEN len ELSE Min(i + 1, len)
    IN /\ ~panicked
       /\ \A at \in NodePos, text \in Texts :
             PlacedAt(doc, insert_paragraph(doc, at, text, history).doc,
                      Min(at, len), Paragraph(text))
       /\ \A i \in NodePos, overflow_checks \in BOOLEAN :
             LET t == insert_table_at(doc, i, 1, 1, history, overflow_checks)
                 f == insert_formula_inline_at(doc, i, <<"x">>, history, overflow_checks)
                 b == insert_formula_block_at(doc, i, <<"x">>, history, overflow_checks)
                 m == insert_image_at(doc, i, <<"s">>, <<"t">>, history, overflow_checks)
             IN /\ ~t.panic /\ PlacedAt(doc, t.doc, after(i), NewTable(1, 1))
                /\ ~f.panic /\ PlacedAt(doc, f.doc, after(i), FormulaInline(<<"x">>))
                /\ ~b.panic /\ PlacedAt(doc, b.doc, after(i), FormulaBlock(<<"x">>))
                /\ ~m.panic /\ PlacedAt(doc, m.doc, after(i), Image(<<"s">>, <<"t">>))

\* C16: delete_node(at) with at >= the node count leaves the document as it
\* was; with at < the node count it leaves one node fewer, the nodes before
\* at where they were and the nodes after at one position earlier.
C16_DeleteNode ==
    \A at \in NodePos :
        LET d2 == delete_node(doc, at, history).doc
        IN /\ at >= Len(doc.nodes) => d2 = doc
           /\ at < Len(doc.nodes) =>
                 /\ Len(d2.nodes) = Len(doc.nodes) - 1
                 /\ \A i \in 1..Len(d2.nodes) :
                       d2.nodes[i] = IF i <= at THEN doc.nodes[i] ELSE doc.nodes[i + 1]
                 /\ d2.threads = doc.threads

\* delete_node has just removed the second of three nodes
C16_Witness ==
    /\ last.op = "delete_node"
    /\ Len(history.undo_stack) = 1
    /\ LET before == history.undo_stack[1].nodes
       IN /\ Len(before) = 3
          /\ before[1] # before[2] /\ before[2] # before[3] /\ before[1] # before[3]
          /\ doc.nodes = <<before[1], before[3]>>

\* C17: set_paragraph_text(index, text) leaves the document as it was when
\* index is out of range or the node at index is no Paragraph; when it is a
\* Paragraph, that node gets the text and no other node changes.
C17_SetParagraphTextOnlyOnParagraph ==
    \A index \in NodePos, text \in Texts :
        LET d2 == set_paragraph_text(doc, index, text, history).doc
            is_para == index < Len(doc.nodes) /\ doc.nodes[index + 1].type = "Paragraph"
        IN /\ ~is_para => d2 = doc
           /\ is_para =>
                 /\ d2 = [doc EXCEPT !.nodes[index + 1].text = text]
                 /\ \A i \in 1..Len(doc.nodes) : i # index + 1 => d2.nodes[i] = doc.nodes[i]

\* set_paragraph_text has just been called on a document whose nodes at the
\* positions 0 and 1 are a heading and a table, and has done nothing
C17_Witness ==
    /\ last.op = "set_paragraph_text"
    /\ history.undo_stack = <<>>
    /\ Len(doc.nodes) >= 2
    /\ doc.nodes[1].type = "Heading"
    /\ doc.nodes[2].type = "Table"

----------------------------------------------------------------------------
(* Inline spans (C18 to C20), under SpecStyle *)

\* the texts of the spans, concatenated
RECURSIVE SpansText(_)
SpansText(spans) ==
    IF spans = <<>> THEN <<>> ELSE spans[1].text \o SpansText(Tail(spans))

\* the paragraphs, headings and table cells of d: what has a text and spans
TextHolders(d) ==
    {d.nodes[i] : i \in {j \in 1..Len(d.nodes) : d.nodes[j].type \in {"Paragraph", "Heading"}}}
    \cup UNION {{CellAt(t, p) : p \in Cells(t)} : t \in Tables(d)}

\* C18, as claimed: in every state, the spans of every paragraph, heading and
\* table cell that has spans concatenate to its text.
C18_SpansMatchText ==
    \A x \in TextHolders(doc) : x.spans # None => SpansText(x.spans[1]) = x.text

\* the inline-style call r did not panic, left the text that x held, and left
\* spans that concatenate to it, in y
StyledAsClaimed(r, x, y) ==
    /\ ~r.panic
    /\ y.text = x.text
    /\ SpansText(IF y.spans = None THEN <<>> ELSE y.spans[1]) = x.text

\* C19, as claimed: every call of set_text_style, set_cell_text_style and
\* set_cell_text_style_at on a paragraph or cell, with any start, end and
\* style, completes and leaves spans that concatenate to the text the
\* paragraph or cell held, and leaves that text as it was.
C19_StyleKeepsText ==
    \A start \in Offsets, end \in Offsets, style_json \in StyleJsons :
        /\ \A i \in 1..Len(doc.nodes) :
              doc.nodes[i].type = "Paragraph" =>
                 LET r == set_text_style(doc, i - 1, start, end, style_json, history)
                 IN StyledAsClaimed(r, doc.nodes[i], r.doc.nodes[i])
        /\ has_table(doc) =>
              LET ti == first_table_indices(doc)
              IN \A a \in InRangeCells(doc) :
                    LET p == <<a[1] + 1, a[2] + 1>>
                        r == set_cell_text_style(doc, a[1], a[2], start, end,
                                                 style_json, history)
                        q == set_cell_text_style_at(doc, ti, a[1], a[2], start, end,
                                                    style_json, history)
                    IN /\ StyledAsClaimed(r, CellAt(FirstTable(doc), p),
                                          CellAt(r.doc.nodes[ti + 1], p))
                       /\ StyledAsClaimed(q, CellAt(FirstTable(doc), p),
                                          CellAt(q.doc.nodes[ti + 1], p))

\* a list of spans that may be stored: present with spans of non-empty text
\* only, or absent
NoEmptySpan(spans) ==
    spans # None =>
        /\ spans[1] # <<>>
        /\ \A i \in 1..Len(spans[1]) : spans[1][i].text # <<>>

\* C20: no paragraph or cell holds a span of empty text or a list of no spans,
\* in any state and after any further inline-style call.
C20_NoEmptySpan ==
    /\ \A x \in TextHolders(doc) : NoEmptySpan(x.spans)
    /\ \A start \in Offsets, end \in Offsets, style_json \in StyleJsons :
          /\ \A i \in NodeIdx :
                \A x \in TextHolders(set_text_style(doc, i, start, end,
                                                    style_json, history).doc) :
                   NoEmptySpan(x.spans)
          /\ \A r \in StyleCellPos, c \in StyleCellPos :
                \A x \in TextHolders(set_cell_text_style(doc, r, c, start, end,
                                                         style_json, history).doc) :
                   NoEmptySpan(x.spans)

\* set_text_style has just styled the middle byte of a paragraph that had
\* been styled before: the paragraph holds three spans
C20_Witness ==
    /\ last.op = "set_text_style"
    /\ Len(history.undo_stack) = 2
    /\ doc.nodes[1].type = "Paragraph"
    /\ doc.nodes[1].spans # None
    /\ Len(doc.nodes[1].spans[1]) = 3
    /\ doc.nodes[1].spans[1][2].style.bold
    /\ doc.nodes[1].spans[1][2].style.color = Some("red")

----------------------------------------------------------------------------
(* Inline styles, position by position (C21 and C22), under SpecStyle *)

\* the style that covers the byte p of the text the spans concatenate to, or
\* None when the spans end before p
RECURSIVE StyleIn(_, _)
StyleIn(spans, p) ==
    IF spans = <<>> THEN None
    ELSE IF p < Len(spans[1].text) THEN Some(spans[1].style)
    ELSE StyleIn(Tail(spans), p - Len(spans[1].text))

\* the style of the byte at the 0-based position p of the paragraph or cell
\* x: the default style when x has no spans
StyleAt(x, p) ==
    IF x.spans = None THEN Some(DefaultInlineStyle) ELSE StyleIn(x.spans[1], p)

\* style with the delta of json laid over it, as claimed: each of the four
\* flags that json sets is true, each scalar that json gives is overwritten
Updated(style, json) ==
    LET has(k) == json.kind = "object" /\ k \in DOMAIN json.fields
        on(k) == has(k) /\ json.fields[k] = TRUE
        val(k, old) == IF has(k) THEN Some(json.fields[k]) ELSE old
    IN [style EXCEPT !.bold = @ \/ on("bold"),
                     !.italic = @ \/ on("italic"),
                     !.underline = @ \/ on("underline"),
                     !.code = @ \/ on("code"),
                     !.color = val("color", @),
                     !.highlight = val("highlight", @),
                     !.font_size_px = val("font_size_px", @)]

\* the inline-style call r, of start, end and json on x, completed and left
\* y, in which the bytes of the clamped range carry their style in x with the
\* delta laid over it and every other byte carries its style in x
PointwiseAsClaimed(r, x, y, start, end, json) ==
    LET len == Len(x.text)
        s == Min(start, len)
        e == Max(Min(end, len), s)
    IN /\ ~r.panic
       /\ \A p \in 0..(len - 1) :
             StyleAt(y, p) =
                IF s <= p /\ p < e /\ StyleAt(x, p) # None
                THEN Some(Updated(StyleAt(x, p)[1], json))
                ELSE StyleAt(x, p)

\* C21, as claimed: every call of set_text_style on a paragraph and of
\* set_cell_text_style_at on a cell, with any start, end and style, updates
\* the style of every byte of the clamped range [s, e) with the delta (flags
\* bold, italic, underline and code set, scalars overwritten) and keeps the
\* style of every byte outside the range.
C21_PointwiseStyleUpdate ==
    \A start \in Offsets, end \in Offsets, style_json \in StyleJsons :
        /\ \A i \in 1..Len(doc.nodes) :
              doc.nodes[i].type = "Paragraph" =>
                 LET r == set_text_style(doc, i - 1, start, end, style_json, history)
                 IN PointwiseAsClaimed(r, doc.nodes[i], r.doc.nodes[i],
                                       start, end, style_json)
        /\ has_table(doc) =>
              LET ti == first_table_indices(doc)
              IN \A a \in InRangeCells(doc) :
                    LET p == <<a[1] + 1, a[2] + 1>>
                        q == set_cell_text_style_at(doc, ti, a[1], a[2], start, end,
                                                    style_json, history)
                    IN PointwiseAsClaimed(q, CellAt(FirstTable(doc), p),
                                          CellAt(q.doc.nodes[ti + 1], p),
                                          start, end, style_json)

\* the part of C21 that holds: the same, for a style_json without the key
\* "code", a paragraph whose spans concatenate to its text, and a clamped
\* range that starts and ends on character boundaries
C21_PointwiseOnBoundaries ==
    \A start \in Offsets, end \in Offsets, style_json \in StyleJsons :
        \A i \in 1..Len(doc.nodes) :
           LET x == doc.nodes[i]
               len == Len(x.text)
               s == Min(start, len)
               e == Max(Min(end, len), s)
               r == set_text_style(doc, i - 1, start, end, style_json, history)
           IN (/\ x.type = "Paragraph"
               /\ x.spans # None => SpansText(x.spans[1]) = x.text
               /\ is_char_boundary(x.text, s)
               /\ is_char_boundary(x.text, e)
               /\ ~(style_json.kind = "object" /\ "code" \in DOMAIN style_json.fields))
              => PointwiseAsClaimed(r, x, r.doc.nodes[i], start, end, style_json)

\* the range of start and end is empty once clamped to a text of len bytes
EmptyRange(start, end, len) == start = end \/ start > end \/ start >= len

\* C22, as claimed: every call of set_text_style on a paragraph whose range
\* is empty after clamping completes and leaves the paragraph's text and its
\* stored spans as they were.
C22_EmptyRangeIsNoOp ==
    \A start \in Offsets, end \in Offsets, style_json \in StyleJsons :
        \A i \in 1..Len(doc.nodes) :
           (/\ doc.nodes[i].type = "Paragraph"
            /\ EmptyRange(start, end, Len(doc.nodes[i].text)))
           => LET r == set_text_style(doc, i - 1, start, end, style_json, history)
              IN /\ ~r.panic
                 /\ r.doc.nodes[i].text = doc.nodes[i].text
                 /\ r.doc.nodes[i].spans = doc.nodes[i].spans

\* the part of C22 that holds: when the clamped start is on a character
\* boundary, the call completes and keeps the text and the style of every
\* byte, though not the list of spans
C22_EmptyRangeKeepsStyles ==
    \A start \in Offsets, end \in Offsets, style_json \in StyleJsons :
        \A i \in 1..Len(doc.nodes) :
           LET x == doc.nodes[i]
               r == set_text_style(doc, i - 1, start, end, style_json, history)
           IN (/\ x.type = "Paragraph"
               /\ EmptyRange(start, end, Len(x.text))
               /\ x.spans # None => SpansText(x.spans[1]) = x.text
               /\ is_char_boundary(x.text, Min(start, Len(x.text))))
              => /\ ~r.panic
                 /\ r.doc.nodes[i].text = x.text
                 /\ \A p \in 0..(Len(x.text) - 1) :
                       StyleAt(r.doc.nodes[i], p) = StyleAt(x, p)

----------------------------------------------------------------------------
(* Anchor mappings (C23 to C26), under SpecAnchors *)

\* C23: for every table-cell anchor of the selection and every insert mapped
\* on the anchor's table at the index k, the row insert completes and adds one
\* to the row when row >= k and keeps the anchor when row < k, the column
\* insert does the same with the column, and neither changes the other field.
C23_AnchorInsertLaw ==
    \A a \in Ends(selection), k \in MapPos, overflow_checks \in BOOLEAN :
        a.type = "TableCell" =>
            LET t == a.table_node_index
                r == map_anchor_row_insert(a, t, k, overflow_checks)
                c == map_anchor_col_insert(a, t, k, overflow_checks)
            IN /\ ~r.panic
               /\ r.anchor.row = (IF a.row >= k THEN a.row + 1 ELSE a.row)
               /\ r.anchor.col = a.col
               /\ ~c.panic
               /\ c.anchor.col = (IF a.col >= k THEN a.col + 1 ELSE a.col)
               /\ c.anchor.row = a.row

\* a row insert has just been mapped: it moved the start of the selection
\* from the row MaxAnchor to the next, and kept the end, of the same table,
\* on the row 0
C23_Witness ==
    /\ last.op = "map_table_row_insert"
    /\ selection.start.type = "TableCell"
    /\ selection.end.type = "TableCell"
    /\ selection.start.table_node_index = selection.end.table_node_index
    /\ selection.start.row = MaxAnchor + 1
    /\ selection.end.row = 0

\* the positions 0..n-1 of an array after the element at from was removed and
\* inserted again at to
ArrayMove(n, from, to) == InsertAt(RemoveAt([i \in 1..n |-> i - 1], from), to, from)

\* the 0-based index of x in seq
IndexOf(seq, x) == (CHOOSE i \in 1..Len(seq) : seq[i] = x) - 1

\* C24: for every table-cell anchor of the selection, every n and every from
\* and to, all three and the anchor's row below n, the row move mapped on the
\* anchor's table gives the index at which the element of the row sits after
\* the array move of from to to on n elements; the column move likewise.
C24_AnchorMoveLaw ==
    \A a \in Ends(selection), from \in MapPos, to \in MapPos, n \in 1..(MaxAnchor + 2) :
        (a.type = "TableCell" /\ from < n /\ to < n) =>
            LET t == a.table_node_index
            IN /\ a.row < n =>
                     map_anchor_row_move(a, t, from, to).row
                        = IndexOf(ArrayMove(n, from, to), a.row)
               /\ a.col < n =>
                     map_anchor_col_move(a, t, from, to).col
                        = IndexOf(ArrayMove(n, from, to), a.col)

\* a row move has just been mapped, and the start of the selection is on the
\* last row that a move names while the end, of the same table, is on row 0
C24_Witness ==
    /\ last.op = "map_table_row_move"
    /\ selection.start.type = "TableCell"
    /\ selection.end.type = "TableCell"
    /\ selection.start.table_node_index = selection.end.table_node_index
    /\ selection.start.row = MaxAnchor + 1
    /\ selection.end.row = 0

\* C25: for every table-cell anchor of the selection and every merge mapped on
\* the anchor's table, with the corners in either order, the anchor goes to
\* the least row and least column of the corners when it is inside their
\* rectangle and stays when it is outside.
C25_AnchorMergeLaw ==
    \A a \in Ends(selection), sr \in MapPos, sc \in MapPos, er \in MapPos, ec \in MapPos :
        a.type = "TableCell" =>
            LET inside == /\ Min(sr, er) <= a.row /\ a.row <= Max(sr, er)
                          /\ Min(sc, ec) <= a.col /\ a.col <= Max(sc, ec)
                m == map_anchor_merge(a, a.table_node_index, sr, sc, er, ec)
            IN IF inside
               THEN m = [a EXCEPT !.row = Min(sr, er), !.col = Min(sc, ec)]
               ELSE m = a

\* a merge has just been mapped, and both ends of the selection are on the
\* cell at row 0 and column 0 of one table
C25_Witness ==
    /\ last.op = "map_table_merge"
    /\ selection.start.type = "TableCell"
    /\ selection.end.type = "TableCell"
    /\ selection.start.table_node_index = selection.end.table_node_index
    /\ selection.start.row = 0 /\ selection.start.col = 0
    /\ selection.end.row = 0 /\ selection.end.col = 0

\* C26: every mapping keeps every Text anchor, and every table-cell anchor of
\* a table other than the one it is mapped on; the split mapping keeps the
\* selection whatever its anchors are.
C26_OtherAnchorsKept ==
    /\ \A a \in Ends(selection), t \in AnchorTables :
          (a.type = "Text" \/ a.table_node_index # t) =>
              /\ \A k \in MapPos, overflow_checks \in BOOLEAN :
                    /\ map_anchor_row_insert(a, t, k, overflow_checks)
                          = [anchor |-> a, panic |-> FALSE]
                    /\ map_anchor_col_insert(a, t, k, overflow_checks)
                          = [anchor |-> a, panic |-> FALSE]
              /\ \A from \in MapPos, to \in MapPos :
                    /\ map_anchor_row_move(a, t, from, to) = a
                    /\ map_anchor_col_move(a, t, from, to) = a
              /\ \A sr \in MapPos, sc \in MapPos, er \in MapPos, ec \in MapPos :
                    map_anchor_merge(a, t, sr, sc, er, ec) = a
    /\ \A t \in AnchorTables, r \in MapPos, c \in MapPos :
          map_table_split(selection, t, r, c) = selection

\* a split has just been mapped on a selection from a Text anchor to a cell
\* of the table 1, which an earlier mapping moved to the last row
C26_Witness ==
    /\ last.op = "map_table_split"
    /\ selection.start.type = "Text"
    /\ selection.end.type = "TableCell"
    /\ selection.end.table_node_index = 1
    /\ selection.end.row = MaxAnchor + 1
    /\ selection.end.col = 0

----------------------------------------------------------------------------
(* Comment threads (C27 to C29), under SpecComments *)

\* the text "thread-k", for k up to 9
ThreadNamed(k) ==
    <<"t", "h", "r", "e", "a", "d", "-",
      <<"1", "2", "3", "4", "5", "6", "7", "8", "9">>[k]>>

\* C27: every call of add_comment, with any anchor payload, text and time,
\* leaves the threads it found followed by one new thread, which is
\* unresolved, holds one message with the text given, is named thread-(n+1)
\* for the n threads found, and has the range the payload encodes as its
\* anchor, or none when the payload encodes no range.
C27_AddCommentAppends ==
    \A anchor_json \in AnchorJsons, text \in Texts, now \in Clock :
        LET r == EditorCore_add_comment(doc, anchor_json, text, history, now)
            n == Len(doc.threads)
            new == r.doc.threads[n + 1]
        IN /\ Len(r.doc.threads) = n + 1
           /\ SubSeq(r.doc.threads, 1, n) = doc.threads
           /\ new.resolved = FALSE
           /\ Len(new.messages) = 1
           /\ new.messages[1].text = text
           /\ new.id = ThreadNamed(n + 1)
           /\ new.anchor = (IF anchor_json.kind = "range"
                            THEN Some(anchor_json.range) ELSE None)

\* add_comment has just returned thread-2: the second thread has an anchor and
\* the first, which is kept, has none
C27_Witness ==
    /\ last.op = "add_comment"
    /\ last.ret = Some(ThreadNamed(2))
    /\ Len(doc.threads) = 2
    /\ doc.threads[1].anchor = None
    /\ doc.threads[2].anchor # None
    /\ doc.threads[2].id = ThreadNamed(2)

\* the ids of the threads of d, in order
ThreadIdsOf(d) == [i \in 1..Len(d.threads) |-> d.threads[i].id]

\* a is a prefix of b
IsPrefix(a, b) == Len(a) <= Len(b) /\ SubSeq(b, 1, Len(a)) = a

\* C28, as claimed: in every step of every session, the ids of the threads
\* before the step are a prefix of the ids of the threads after it.
C28_ThreadsOnlyAppended ==
    [][IsPrefix(ThreadIdsOf(doc), ThreadIdsOf(doc'))]_vars

\* the part of C28 that holds: add_comment, resolve_comment, insert_paragraph
\* and insert_table keep the ids of the threads as a prefix
C28_EditsKeepThreads ==
    LET kept(d) == IsPrefix(ThreadIdsOf(doc), ThreadIdsOf(d))
    IN /\ \A anchor_json \in AnchorJsons, text \in Texts, now \in Clock :
             kept(EditorCore_add_comment(doc, anchor_json, text, history, now).doc)
       /\ \A thread_id \in ThreadIds, resolved \in BOOLEAN :
             kept(EditorCore_resolve_comment(doc, thread_id, resolved, history).doc)
       /\ \A text \in Texts : kept(insert_paragraph(doc, 0, text, history).doc)
       /\ \A n \in Dim : kept(insert_table(doc, n, n, history).doc)

\* C29: every call of resolve_comment with an id and a flag leaves the
\* document it found but for the resolved flag of the thread of that id,
\* which is the flag given; when no thread has the id, the document and the
\* two stacks of the history are as they were.
C29_ResolveSetsFlag ==
    \A thread_id \in ThreadIds, resolved \in BOOLEAN :
        LET r == EditorCore_resolve_comment(doc, thread_id, resolved, history)
        IN /\ r.doc = [doc EXCEPT !.threads =
                          [i \in 1..Len(doc.threads) |->
                              IF doc.threads[i].id = thread_id
                              THEN [doc.threads[i] EXCEPT !.resolved = resolved]
                              ELSE doc.threads[i]]]
           /\ (\A i \in 1..Len(doc.threads) : doc.threads[i].id # thread_id)
                 => r.doc = doc /\ r.history = history

\* resolve_comment has just resolved the one thread of the document
C29_Witness ==
    /\ last.op = "resolve_comment"
    /\ Len(doc.threads) = 1
    /\ doc.threads[1].resolved
    /\ Len(history.undo_stack) = 2
    /\ history.undo_stack[2].threads[1].resolved = FALSE

----------------------------------------------------------------------------
(* Moves of rows and columns (C30), under SpecMove *)

\* the array v after its element at from was removed and inserted at to
Moved(v, from, to) == InsertAt(RemoveAt(v, from), to, v[from + 1])

\* t2 is t with the row at from, clamped to the last row, moved to to,
\* clamped likewise
RowMovedAsClaimed(t, t2, from, to) ==
    LET last_i == Len(t.rows) - 1
    IN t2 = [t EXCEPT !.rows = Moved(@, Min(from, last_i), Min(to, last_i))]

\* t2 is t with the cell at from, clamped to the last column, moved to to,
\* clamped likewise, in every row, and the same move made in column_widths
\* when t has them
ColMovedAsClaimed(t, t2, from, to) ==
    LET last_i == Len(t.rows[1].cells) - 1
        f == Min(from, last_i)
        g == Min(to, last_i)
    IN t2 = [t EXCEPT !.rows = [r \in 1..Len(t.rows) |->
                                   [t.rows[r] EXCEPT !.cells = Moved(@, f, g)]],
                      !.column_widths = IF @ = <<>> THEN @ ELSE Moved(@, f, g)]

\* C30, as claimed: on every table of at least one row and one column, with
\* or without column_widths, every call of move_row and move_col, of ops and
\* of EditorCore, leaves the table with the row (the column, and its width)
\* at the clamped from moved to the clamped to, and all else as it was.
C30_MovesPermute ==
    has_table(doc) =>
        LET ti == first_table_indices(doc)
            t == FirstTable(doc)
        IN \A from \in Idx, to \in Idx :
              /\ RowMovedAsClaimed(t, move_row(doc, from, to, history).doc.nodes[ti + 1],
                                   from, to)
              /\ RowMovedAsClaimed(t, EditorCore_move_row(doc, from, to, history)
                                         .doc.nodes[ti + 1], from, to)
              /\ ColMovedAsClaimed(t, move_col(doc, from, to, history).doc.nodes[ti + 1],
                                   from, to)
              /\ ColMovedAsClaimed(t, EditorCore_move_col(doc, from, to, history)
                                         .doc.nodes[ti + 1], from, to)

\* the part of C30 that holds: the same, of move_row, EditorCore::move_row
\* and EditorCore::move_col on every table, and of move_col on the tables
\* that have column_widths
C30_MovesPermuteWithWidths ==
    has_table(doc) =>
        LET ti == first_table_indices(doc)
            t == FirstTable(doc)
        IN \A from \in Idx, to \in Idx :
              /\ RowMovedAsClaimed(t, move_row(doc, from, to, history).doc.nodes[ti + 1],
                                   from, to)
              /\ RowMovedAsClaimed(t, EditorCore_move_row(doc, from, to, history)
                                         .doc.nodes[ti + 1], from, to)
              /\ t.column_widths # <<>> =>
                    ColMovedAsClaimed(t, move_col(doc, from, to, history)
                                            .doc.nodes[ti + 1], from, to)
              /\ ColMovedAsClaimed(t, EditorCore_move_col(doc, from, to, history)
                                         .doc.nodes[ti + 1], from, to)

----------------------------------------------------------------------------
(* Adding and deleting rows and columns *)

\* the column count of a table: the length of column_widths when that is not
\* empty, else the length of the first row
ColumnCount(t) ==
    IF t.column_widths # <<>> THEN Len(t.column_widths)
    ELSE IF t.rows # <<>> THEN Len(t.rows[1].cells) ELSE 0

\* new is old with x inserted at position i (from 0) and nothing else changed
InsertedAt(new, old, i, x) ==
    /\ Len(new) = Len(old) + 1
    /\ i <= Len(old)
    /\ new[i + 1] = x
    /\ \A k \in 1..Len(old) : new[IF k <= i THEN k ELSE k + 1] = old[k]

\* new is old with position i (from 0) removed and nothing else changed
RemovedAt(new, old, i) ==
    /\ i < Len(old)
    /\ Len(new) = Len(old) - 1
    /\ \A k \in 1..Len(new) : new[k] = old[IF k <= i THEN k ELSE k + 1]

AddColAsClaimed(t, u, at) ==
    LET i == Min(at, ColumnCount(t))
    IN /\ Len(u.rows) = Len(t.rows)
       /\ \A r \in 1..Len(t.rows) :
             InsertedAt(u.rows[r].cells, t.rows[r].cells, i, DefaultCell)
       /\ InsertedAt(u.column_widths, t.column_widths, i, 120)

DeleteColAsClaimed(t, u, at) ==
    at < ColumnCount(t) =>
        /\ Len(u.rows) = Len(t.rows)
        /\ \A r \in 1..Len(t.rows) : RemovedAt(u.rows[r].cells, t.rows[r].cells, at)
        /\ RemovedAt(u.column_widths, t.column_widths, at)

AddRowAsClaimed(t, u, at) ==
    InsertedAt(u.rows, t.rows, Min(at, Len(t.rows)), NewRow(ColumnCount(t)))

\* C31, as claimed: add_col(at) puts one default cell at column
\* min(at, column count) of every row and the width 120 at that index of
\* column_widths, delete_col(at) with at below the column count removes that
\* cell of every row and that width, add_row(at) puts at min(at, row count) a
\* row of as many default cells as the table has columns, and no other cell
\* changes; the same for the variants that take the table's index.
C31_AddDeleteAsClaimed ==
    has_table(doc) =>
        LET ti == first_table_indices(doc)
            t == doc.nodes[ti + 1]
            after(r) == r.doc.nodes[ti + 1]
        IN \A at \in Idx :
              /\ AddColAsClaimed(t, after(add_col(doc, at, history)), at)
              /\ AddColAsClaimed(t, after(add_col_at(doc, ti, at, history)), at)
              /\ DeleteColAsClaimed(t, after(delete_col(doc, at, history)), at)
              /\ DeleteColAsClaimed(t, after(delete_col_at(doc, ti, at, history)), at)
              /\ AddRowAsClaimed(t, after(add_row(doc, at, history)), at)
              /\ AddRowAsClaimed(t, after(add_row_at(doc, ti, at, history)), at)

\* the same on the tables whose column_widths has one entry for each cell of
\* every row
C31_AddDeleteWithWidths ==
    (/\ has_table(doc)
     /\ LET t == FirstTable(doc)
        IN \A r \in 1..Len(t.rows) : Len(t.rows[r].cells) = Len(t.column_widths))
    => C31_AddDeleteAsClaimed

----------------------------------------------------------------------------
(* Size minimums *)

SizesAtLeastMinimum(d) ==
    \A i \in 1..Len(d.nodes) :
        IsTable(d.nodes[i]) =>
            /\ \A c \in 1..Len(d.nodes[i].column_widths) : d.nodes[i].column_widths[c] >= 20
            /\ \A r \in 1..Len(d.nodes[i].rows) :
                  d.nodes[i].rows[r].height_px # None => d.nodes[i].rows[r].height_px[1] >= 12

\* C32, as claimed: in every state reached from an empty document every entry
\* of every table's column_widths is at least 20 and every row height that is
\* set is at least 12, whatever pixel values the setters were given.
C32_SizeMinimums == SizesAtLeastMinimum(doc)

\* the same of the states that EditorCore::set_column_width has not produced
C32_OpsSettersClamp ==
    [][last'.op # "EditorCore::set_column_width" =>
          (SizesAtLeastMinimum(doc) => SizesAtLeastMinimum(doc'))]_vars

----------------------------------------------------------------------------
(* Malformed input at the binding *)

\* text that is no JSON
Unparseable == [kind |-> "invalid"]

\* C33, as claimed: Editor::from_json of unparseable JSON returns an editor
\* whose document has no nodes and no threads, and from_delta of unparseable
\* delta JSON leaves the editor holding an empty document.
C33_MalformedGivesEmpty ==
    /\ Editor_from_json(Unparseable).doc = DefaultDoc
    /\ Editor_from_delta(doc, Unparseable, history).doc = DefaultDoc

\* Editor::from_json of unparseable JSON returns an empty editor, and
\* from_delta of unparseable delta JSON leaves the editor as it was
C33_MalformedDeltaKeepsDocument ==
    /\ Editor_from_json(Unparseable) = R(DefaultDoc, DefaultHistory)
    /\ Editor_from_json([kind |-> "doc", value |-> doc]).doc = doc
    /\ Editor_from_delta(doc, Unparseable, history) = R(doc, history)

----------------------------------------------------------------------------
(* Moves and the anchor mapper in lockstep *)

\* the column c (from 0) of a table: its cell of every row
ColumnOf(t, c) == [r \in 1..Len(t.rows) |-> t.rows[r].cells[c + 1]]

\* after move_row(from, to) and map_table_row_move(ti, from, to), an anchor
\* that was on a row of the first table is on the row that holds the same cells
RowMoveCoherent(from, to) ==
    LET ti == first_table_indices(doc)
        t == doc.nodes[ti + 1]
        u == move_row(doc, from, to, history).doc.nodes[ti + 1]
    IN \A row \in 0..(Len(t.rows) - 1) :
          LET a == TableCell(ti, row, 0, 0)
              m == map_table_row_move(SelectionRange(a, a), ti, from, to).start
          IN /\ m.row < Len(u.rows)
             /\ u.rows[m.row + 1] = t.rows[row + 1]

ColMoveCoherent(from, to) ==
    LET ti == first_table_indices(doc)
        t == doc.nodes[ti + 1]
        u == move_col(doc, from, to, history).doc.nodes[ti + 1]
    IN \A col \in 0..(Len(t.rows[1].cells) - 1) :
          LET a == TableCell(ti, 0, col, 0)
              m == map_table_col_move(SelectionRange(a, a), ti, from, to).start
          IN /\ m.col < Len(u.rows[1].cells)
             /\ ColumnOf(u, m.col) = ColumnOf(t, col)

\* C34, as claimed: after move_row(from, to) and map_table_row_move with the
\* same table index, from and to, an anchor that pointed at a row of the table
\* points at the index where that row now sits, for every from and to, those
\* at or beyond the row count included; the same for move_col and
\* map_table_col_move.
C34_MovesInLockstep ==
    has_table(doc) =>
        \A from \in Idx, to \in Idx : RowMoveCoherent(from, to) /\ ColMoveCoherent(from, to)

\* the same for from and to inside the table, on the tables that have
\* column_widths
C34_MovesInLockstepInRange ==
    has_table(doc) =>
        LET t == FirstTable(doc)
        IN /\ \A from \in 0..(Len(t.rows) - 1), to \in 0..(Len(t.rows) - 1) :
                 RowMoveCoherent(from, to)
           /\ \A from \in 0..(Len(t.column_widths) - 1), to \in 0..(Len(t.column_widths) - 1) :
                 ColMoveCoherent(from, to)

----------------------------------------------------------------------------
(* Inline styles on headings *)

\* style_json arguments that set bold, and that give a color
HeadingStyleJsons ==
    {[kind |-> "object", fields |-> [bold |-> TRUE]],
     [kind |-> "object", fields |-> [color |-> "red", bold |-> FALSE]]}

\* set_text_style of a non-empty range inside the text of the node at the
\* 1-based position i leaves every position of the range with the style laid
\* over the one it had
RangeCarriesStyle(i) ==
    LET x == doc.nodes[i]
    IN \A start \in Offsets, end \in Offsets, style_json \in HeadingStyleJsons :
          (start < end /\ end <= Len(x.text)) =>
             LET r == set_text_style(doc, i - 1, start, end, style_json, history)
             IN /\ ~r.panic
                /\ \A p \in start..(end - 1) :
                      StyleAt(r.doc.nodes[i], p) =
                          Some(Updated(StyleAt(x, p)[1], style_json))

\* C35, as claimed: set_text_style on an index holding a Heading with
\* non-empty text and a non-empty range inside the text produces spans in
\* which the positions of the range carry the incoming style.
C35_HeadingsCarryStyle ==
    \A i \in 1..Len(doc.nodes) : doc.nodes[i].type = "Heading" => RangeCarriesStyle(i)

\* the same on paragraphs, and on a heading the call changes nothing
C35_OnlyParagraphsCarryStyle ==
    \A i \in 1..Len(doc.nodes) :
        /\ doc.nodes[i].type = "Paragraph" => RangeCarriesStyle(i)
        /\ doc.nodes[i].type = "Heading" =>
              \A start \in Offsets, end \in Offsets, style_json \in StyleJsons :
                  set_text_style(doc, i - 1, start, end, style_json, history)
                      = [doc |-> doc, history |-> history, panic |-> FALSE]

----------------------------------------------------------------------------
(* The operations on the first table and the operations on the table at an
   index *)

\* style_json arguments of set_cell_style: text that is no JSON, a background,
\* a border that names its color only, and a background with a border that
\* names its width only
CellStyleJsons ==
    {[kind |-> "invalid"],
     [kind |-> "object", fields |-> [background |-> "#fff"]],
     [kind |-> "object", fields |-> [border |-> [color |-> "red"]]],
     [kind |-> "object", fields |-> [background |-> "#eee", border |-> [width_px |-> 2]]]}

\* starts and ends of the ranges passed to both set_cell_text_style
RangeStarts == {0, 1}
RangeEnds == {1, MaxOffset}

\* C36: in a document that holds a table, with i the index of its first table
\* node, each of add_row, add_col, delete_row, delete_col, merge_cells,
\* split_cell, set_cell_style, set_cell_text_style, set_column_width,
\* set_row_height and set_freeze leaves the same document and the same
\* history stacks as its _at counterpart called with i and the same arguments
\* (and panics when that one does).
C36_LegacyAgreesWithIndexed ==
    has_table(doc) =>
        LET i == first_table_indices(doc)
        IN /\ \A at \in Idx :
                 /\ add_row(doc, at, history) = add_row_at(doc, i, at, history)
                 /\ add_col(doc, at, history) = add_col_at(doc, i, at, history)
                 /\ delete_row(doc, at, history) = delete_row_at(doc, i, at, history)
                 /\ delete_col(doc, at, history) = delete_col_at(doc, i, at, history)
           /\ \A sr \in Idx, sc \in Idx, er \in Idx, ec \in Idx :
                 merge_cells(doc, sr, sc, er, ec, history)
                     = merge_cells_at(doc, i, sr, sc, er, ec, history)
           /\ \A r \in Idx, c \in Idx :
                 /\ split_cell(doc, r, c, history) = split_cell_at(doc, i, r, c, history)
                 /\ \A style_json \in CellStyleJsons :
                       set_cell_style(doc, r, c, style_json, history)
                           = set_cell_style_at(doc, i, r, c, style_json, history)
                 /\ \A start \in RangeStarts, end \in RangeEnds, style_json \in StyleJsons :
                       set_cell_text_style(doc, r, c, start, end, style_json, history)
                           = set_cell_text_style_at(doc, i, r, c, start, end, style_json,
                                                    history)
           /\ \A k \in Idx, px \in Px :
                 /\ set_column_width(doc, k, px, history)
                        = set_column_width_at(doc, i, k, px, history)
                 /\ set_row_height(doc, k, px, history)
                        = set_row_height_at(doc, i, k, px, history)
           /\ \A header \in BOOLEAN, first_col \in BOOLEAN :
                 set_freeze(doc, header, first_col, history)
                     = set_freeze_at(doc, i, header, first_col, history)

\* a table that follows a paragraph and holds a merged cell, on which the
\* operations change the document
C36_Witness ==
    /\ has_table(doc)
    /\ first_table_indices(doc) = 1
    /\ last.op \in {"merge_cells", "merge_cells_at"}
    /\ FirstTable(doc).rows[1].cells[1].colspan > 1
    /\ add_col_at(doc, 1, 0, history).doc # doc
    /\ split_cell_at(doc, 1, 0, 0, history).doc # doc
    /\ set_cell_style_at(doc, 1, 0, 0,
           [kind |-> "object", fields |-> [background |-> "#fff"]], history).doc # doc
    /\ set_freeze_at(doc, 1, TRUE, FALSE, history).doc # doc

----------------------------------------------------------------------------
(* Conservation of snapshots *)

\* the multiset of the documents of a sequence
BagOfSeq(s) ==
    [x \in {s[i] : i \in 1..Len(s)} |-> Cardinality({i \in 1..Len(s) : s[i] = x})]

\* the documents of the undo stack, the current document and the redo stack
Snapshots(h, d) == BagOfSeq(h.undo_stack \o <<d>> \o h.redo_stack)

\* C37: every successful undo or redo leaves the sum of the lengths of the
\* two stacks and the multiset of the documents of the undo stack, the current
\* document and the redo stack as they were; an undo or redo that fails leaves
\* history and document as they were; any other step either leaves the
\* history as it was or pushes the current document onto the undo stack and
\* empties the redo stack.
C37_SnapshotsConserved ==
    [][IF last'.op \in {"undo", "redo"}
       THEN IF last'.ret = Some(TRUE)
            THEN /\ Len(history'.undo_stack) + Len(history'.redo_stack)
                        = Len(history.undo_stack) + Len(history.redo_stack)
                 /\ Snapshots(history', doc') = Snapshots(history, doc)
                 /\ history' # history
            ELSE history' = history /\ doc' = doc
       ELSE \/ history' = history
            \/ history' = [undo_stack |-> Append(history.undo_stack, doc),
                           redo_stack |-> <<>>]]_vars

\* an undo has moved a document from one stack to the other, and both
\* stacks hold documents
C37_Witness ==
    /\ last = [op |-> "undo", ret |-> Some(TRUE)]
    /\ history.undo_stack # <<>>
    /\ history.redo_stack # <<>>
    /\ doc # DefaultDoc

----------------------------------------------------------------------------
(* The move mappings are invertible *)

\* C38: for every table, from and to, mapping a row move from from to to and
\* then the row move from to to from brings both ends of the selection back
\* to where they were, and likewise for column moves; and a table-cell anchor
\* of the selection and an anchor on any other row (column) of its table are
\* not mapped to the same row (column) by a move.
C38_MovesInvertible ==
    \A t \in AnchorTables, from \in MapPos, to \in MapPos :
        /\ map_table_row_move(map_table_row_move(selection, t, from, to), t, to, from)
              = selection
        /\ map_table_col_move(map_table_col_move(selection, t, from, to), t, to, from)
              = selection
        /\ \A a \in Ends(selection), k \in MapPos :
              (a.type = "TableCell" /\ a.table_node_index = t)
              => /\ a.row # k =>
                       map_anchor_row_move(a, t, from, to).row
                           # map_anchor_row_move([a EXCEPT !.row = k], t, from, to).row
                 /\ a.col # k =>
                       map_anchor_col_move(a, t, from, to).col
                           # map_anchor_col_move([a EXCEPT !.col = k], t, from, to).col

\* a column move has just been mapped on a selection whose ends are on
\* different rows and columns of one table, and a move over both moves them
C38_Witness ==
    /\ last.op = "map_table_col_move"
    /\ selection.start.type = "TableCell"
    /\ selection.end.type = "TableCell"
    /\ selection.start.table_node_index = selection.end.table_node_index
    /\ selection.start.row # selection.end.row
    /\ selection.start.col # selection.end.col
    /\ LET t == selection.start.table_node_index
           m == map_table_col_move(selection, t, selection.start.col, selection.end.col)
       IN m.start.col # selection.start.col /\ m.end.col # selection.end.col

----------------------------------------------------------------------------
(* What the mappings leave alone *)

\* b is a with at most its row and col changed, and those of a table-cell
\* anchor only
FrameKept(a, b) ==
    /\ b.type = a.type
    /\ b.char_offset = a.char_offset
    /\ a.type = "Text" => b = a
    /\ a.type = "TableCell" => b.table_node_index = a.table_node_index

\* the range m is the selection with each end mapped to what f gives for it,
\* and only rows and columns of table-cell anchors differ
EndsMappedAlike(m, f(_)) ==
    /\ m.start = f(selection.start)
    /\ m.end = f(selection.end)
    /\ FrameKept(selection.start, m.start)
    /\ FrameKept(selection.end, m.end)

\* C39: every mapping of the selection, with any arguments, leaves the
\* variant, the table_node_index and the char_offset of both ends as they
\* were, changes nothing of a Text anchor, and maps both ends by the same
\* function of one anchor with the same arguments.
C39_MappingsKeepFrame ==
    \A t \in AnchorTables :
        /\ \A k \in MapPos, overflow_checks \in BOOLEAN :
              LET row(a) == map_anchor_row_insert(a, t, k, overflow_checks).anchor
                  col(a) == map_anchor_col_insert(a, t, k, overflow_checks).anchor
                  r == map_table_row_insert(selection, t, k, overflow_checks)
                  c == map_table_col_insert(selection, t, k, overflow_checks)
              IN /\ ~r.panic => EndsMappedAlike(r.selection, row)
                 /\ ~c.panic => EndsMappedAlike(c.selection, col)
        /\ \A from \in MapPos, to \in MapPos :
              LET row(a) == map_anchor_row_move(a, t, from, to)
                  col(a) == map_anchor_col_move(a, t, from, to)
              IN /\ EndsMappedAlike(map_table_row_move(selection, t, from, to), row)
                 /\ EndsMappedAlike(map_table_col_move(selection, t, from, to), col)
        /\ \A sr \in MapPos, sc \in MapPos, er \in MapPos, ec \in MapPos :
              LET merge(a) == map_anchor_merge(a, t, sr, sc, er, ec)
              IN EndsMappedAlike(map_table_merge(selection, t, sr, sc, er, ec), merge)
        /\ \A r \in MapPos, c \in MapPos :
              LET keep(a) == a
              IN EndsMappedAlike(map_table_split(selection, t, r, c), keep)

\* a merge has just been mapped on a selection from a Text anchor to a
\* table-cell anchor that keeps its character offset, and a further merge
\* would move the table-cell anchor
C39_Witness ==
    /\ last.op = "map_table_merge"
    /\ selection.start.type = "Text"
    /\ selection.end.type = "TableCell"
    /\ selection.end.char_offset = 1
    /\ selection.end.row = MaxAnchor + 1
    /\ map_table_merge(selection, selection.end.table_node_index,
                       0, 0, MaxAnchor + 1, MaxAnchor + 1).end # selection.end

----------------------------------------------------------------------------
(* Thread ids are unique *)

\* no two threads of d share an id
UniqueThreadIds(d) ==
    \A i \in 1..Len(d.threads), j \in 1..Len(d.threads) :
        i # j => d.threads[i].id # d.threads[j].id

\* C40: in every state reached from an empty document no two threads of the
\* document, nor of a document on the undo or redo stack, share an id, and
\* resolve_comment with any id and flag changes at most one thread and
\* leaves the number of threads as it was.
C40_ThreadIdsUnique ==
    /\ UniqueThreadIds(doc)
    /\ \A k \in 1..Len(history.undo_stack) : UniqueThreadIds(history.undo_stack[k])
    /\ \A k \in 1..Len(history.redo_stack) : UniqueThreadIds(history.redo_stack[k])
    /\ \A thread_id \in ThreadIds, resolved \in BOOLEAN :
          LET r == EditorCore_resolve_comment(doc, thread_id, resolved, history)
          IN /\ Len(r.doc.threads) = Len(doc.threads)
             /\ Cardinality({i \in 1..Len(doc.threads) :
                                r.doc.threads[i] # doc.threads[i]}) <= 1
             /\ \A i \in 1..Len(doc.threads) :
                   r.doc.threads[i] # doc.threads[i] => doc.threads[i].id = thread_id

\* add_comment has just added a second thread, and resolve_comment with the
\* id of the second changes the second and not the first
C40_Witness ==
    /\ last.op = "add_comment"
    /\ Len(doc.threads) = 2
    /\ doc.threads[1].id # doc.threads[2].id
    /\ LET r == EditorCore_resolve_comment(doc, doc.threads[2].id, TRUE, history)
       IN /\ r.doc.threads[1] = doc.threads[1]
          /\ r.doc.threads[2] # doc.threads[2]

====
